---- MODULE Spec2Model ----
(***************************************************************************)
(* Session and multi-factor authentication orchestration of InventoryMS:   *)
(* the transport client (apiRequest), the auth service (signIn, signOut,   *)
(* getSession, ...), the AuthProvider context and the page handlers that   *)
(* drive them.  Every async handler is cut at its awaits: one action per   *)
(* segment.  The identity backend is the environment (action Backend).     *)
(* Strings the code transforms (emails, passwords, codes) are sequences of *)
(* one-character strings; fixed texts are TLA+ strings.                    *)
(***************************************************************************)
EXTENDS Naturals, Sequences, FiniteSets, TLC

\* ------------------------------------------------------------------ bounds
\* Requests that may be in flight at the same time.
MaxInflight == 2
\* Longest password typed character by character into the sign-up form.
MaxTypedLength == 3

\* ------------------------------------------------------- program constants
MinPasswordLength == 6
TotpCodeLength == 6
HttpOk == 200
HttpBadRequest == 400
HttpUnauthorized == 401
TransportStatus == 0

\* ------------------------------------------------------------------ values
\* JavaScript null / undefined.
Null == [null |-> TRUE]

EmailA == <<"a">>
EmailB == <<"b">>
Emails == {EmailA, EmailB}
\* What a user types into an email field in this model (empty included); EmailB
\* is an identity an earlier visit or an email change left behind.
EmailInputs == {EmailA, << >>}

LowercaseChars == {"a", "b", "c", "d", "e", "f", "g", "h", "i", "j", "k", "l", "m",
                   "n", "o", "p", "q", "r", "s", "t", "u", "v", "w", "x", "y", "z"}
UppercaseChars == {"A", "B", "C", "D", "E", "F", "G", "H", "I", "J", "K", "L", "M",
                   "N", "O", "P", "Q", "R", "S", "T", "U", "V", "W", "X", "Y", "Z"}
DigitChars == {"0", "1", "2", "3", "4", "5", "6", "7", "8", "9"}

PwGood == <<"A", "b", "c", "d", "e", "f", "1", "!">>
PwAbc == <<"a", "b", "c">>
PwShort == <<"A", "b", "1", "!">>
PwNoLower == <<"A", "B", "C", "D", "1", "!">>
PwNoUpper == <<"a", "b", "c", "d", "1", "!">>
PwNoSymbol == <<"A", "b", "c", "d", "e", "1">>
PwNoDigit == <<"A", "b", "c", "d", "e", "!">>
\* What a user can type into a password field.
PasswordInputs == {PwGood, PwAbc, PwShort, PwNoLower, PwNoUpper, PwNoSymbol,
                   PwNoDigit, << >>}

\* One character of each class the policy tells apart, and the passwords typed
\* from them: every string up to MaxTypedLength, and the named ones.
TypedChars == {"a", "A", "1", "!"}
TypedPasswords ==
    PasswordInputs \cup UNION {[1..n -> TypedChars] : n \in 0..MaxTypedLength}

TotpCode == <<"1", "2", "3", "4", "5", "6">>
RecoveryCode == <<"R", "C">>
\* What a user can type into a code field.
CodeInputs == {TotpCode, RecoveryCode, <<" ">>, << >>}

RequiresTwoFactor == "RequiresTwoFactor"
InvalidCredentials == "Email or password is invalid."
DefaultErrorMessage == "An error occurred"
TimeoutMessage == "Request timeout"
PasswordResetDone ==
    "Password reset successfully. You can now sign in with your new password."
EmailUpdateInitiated ==
    "Email update initiated. Please check your new email for verification."

\* ------------------------------------------------------- string conversions
RECURSIVE JsonEscape(_)
\* The characters of s as they stand inside a JSON string literal.
JsonEscape(s) ==
    IF s = << >> THEN << >>
    ELSE (IF Head(s) \in {"\"", "\\"} THEN <<"\\", Head(s)>> ELSE <<Head(s)>>)
         \o JsonEscape(Tail(s))

\* JSON.stringify of a string: the escaped text between double quotes.
JSONstringify(s) == <<"\"">> \o JsonEscape(s) \o <<"\"">>

RECURSIVE TrimLeft(_)
TrimLeft(s) == IF s # << >> /\ Head(s) = " " THEN TrimLeft(Tail(s)) ELSE s

RECURSIVE TrimRight(_)
TrimRight(s) ==
    IF s # << >> /\ s[Len(s)] = " " THEN TrimRight(SubSeq(s, 1, Len(s) - 1)) ELSE s

\* String.prototype.trim, for the blank this model types.
Trim(s) == TrimRight(TrimLeft(s))

\* --------------------------------------------------------- transport client
\* A fetch that rejected: an abort by the timeout, or a network failure.
Thrown(name, msg) ==
    [thrown |-> name, message |-> msg, status |-> TransportStatus, ctype |-> "",
     body |-> Null]

\* A received HTTP response: status, content type ("json" or "text") and body.
\* A JSON body is a record (Null for the JSON null, [malformed |-> TRUE] for text
\* that does not parse); any other body is [text |-> s].
Http(status, ctype, body) ==
    [thrown |-> "", message |-> "", status |-> status, ctype |-> ctype, body |-> body]

ErrorBody(title, detail, message, error, errors) ==
    [title |-> title, detail |-> detail, message |-> message, error |-> error,
     errors |-> errors]

EmptyText == [text |-> ""]

\* responseData?.f of a parsed body; "" stands for undefined.
Field(b, f) == IF f \in DOMAIN b THEN b[f] ELSE ""

\* responseData?.errors, the per-field validation errors ({} when there are none).
ErrorsOf(b) == IF "errors" \in DOMAIN b THEN b.errors ELSE {}

\* a || b on strings.
Or(a, b) == IF a # "" THEN a ELSE b

\* JavaScript truthiness of a response's data.
Truthy(d) == d # Null /\ d # EmptyText

ResponseOk(resp) == resp.status >= HttpOk /\ resp.status < HttpOk + 100

\* Faulty variant: a normalisation that prefers the body's detail to its title.
ApiErrorDetailFirst(resp) ==
    [message |-> IF resp.ctype = "json"
                 THEN Or(Field(resp.body, "detail"),
                      Or(Field(resp.body, "title"),
                      Or(Field(resp.body, "message"),
                      Or(Field(resp.body, "error"), DefaultErrorMessage))))
                 ELSE resp.body.text,
     status |-> resp.status,
     errors |-> IF resp.ctype = "json" THEN ErrorsOf(resp.body) ELSE {}]

\* The error-normalisation branch of apiRequest (a received non-2xx response).
ApiError(resp) ==
    [message |-> IF resp.ctype = "json"
                 THEN Or(Field(resp.body, "title"),
                      Or(Field(resp.body, "detail"),
                      Or(Field(resp.body, "message"),
                      Or(Field(resp.body, "error"), DefaultErrorMessage))))
                 ELSE resp.body.text,
     status |-> resp.status,
     errors |-> IF resp.ctype = "json" THEN ErrorsOf(resp.body) ELSE {}]

\* The catch branch of apiRequest.
CaughtError(name, msg) ==
    [message |-> IF name = "AbortError" THEN TimeoutMessage ELSE msg,
     status |-> TransportStatus, errors |-> {}]

\* Faulty variant: an apiRequest without its catch, which turns no rejected
\* fetch into an error value (the rejection leaves it as `thrown`).
apiRequestWithoutCatch(resp) ==
    IF resp.thrown # ""
    THEN [data |-> Null, error |-> Null, thrown |-> resp.thrown]
    ELSE IF resp.ctype = "json" /\ resp.body = [malformed |-> TRUE]
    THEN [data |-> Null, error |-> Null, thrown |-> "SyntaxError"]
    ELSE IF ~ResponseOk(resp)
    THEN [data |-> Null, error |-> ApiError(resp)]
    ELSE [data |-> resp.body, error |-> Null]

\* apiRequest: the {data, error} value it returns for an outcome of fetch.
apiRequest(resp) ==
    IF resp.thrown # ""
    THEN [data |-> Null, error |-> CaughtError(resp.thrown, resp.message)]
    ELSE IF resp.ctype = "json" /\ resp.body = [malformed |-> TRUE]
    THEN [data |-> Null,
          error |-> CaughtError("SyntaxError", "Unexpected end of JSON input")]
    ELSE IF ~ResponseOk(resp)
    THEN [data |-> Null, error |-> ApiError(resp)]
    ELSE [data |-> resp.body, error |-> Null]

\* ------------------------------------------------------------ auth service
StorageKeys == {"email", "auth_token"}

setItem(ls, k, v) == [ls EXCEPT ![k] = [value |-> v]]
removeItem(ls, k) == [ls EXCEPT ![k] = Null]
getItem(ls, k) == ls[k]

\* Each service operation is given the result of its apiRequest and the storage,
\* and yields what it returns (ret) and the storage it leaves (ls).
signUp(email, res, ls) ==
    IF res.error # Null
    THEN [ret |-> [data |-> Null, error |-> res.error], ls |-> ls]
    ELSE [ret |-> [data |-> res.data, error |-> Null],
          ls |-> setItem(ls, "email", JSONstringify(email))]

\* Faulty variant: a signIn that stores the marker whether or not it succeeded.
signInStoringMarkerOnError(email, res, ls) ==
    [ret |-> [data |-> res.data,
              error |-> IF res.error # Null /\ res.error.status = HttpUnauthorized
                           /\ res.error.message # RequiresTwoFactor
                        THEN [res.error EXCEPT !.message = InvalidCredentials]
                        ELSE res.error],
     ls |-> setItem(ls, "email", JSONstringify(email))]

\* Faulty variant: a signIn that hands every error on as the transport gave it.
signInWithoutNormalisation(email, res, ls) ==
    IF res.error # Null
    THEN [ret |-> [data |-> Null, error |-> res.error], ls |-> ls]
    ELSE [ret |-> [data |-> res.data, error |-> Null],
          ls |-> setItem(ls, "email", JSONstringify(email))]

signIn(email, res, ls) ==
    IF res.error # Null
    THEN [ret |-> [data |-> Null,
                   error |-> IF res.error.status = HttpUnauthorized
                                /\ res.error.message # RequiresTwoFactor
                             THEN [res.error EXCEPT !.message = InvalidCredentials]
                             ELSE res.error],
          ls |-> ls]
    ELSE [ret |-> [data |-> res.data, error |-> Null],
          ls |-> setItem(ls, "email", JSONstringify(email))]

\* Faulty variant: a verify2FALogin that drops the marker when it fails.
verify2FALoginClearingMarker(email, res, ls) ==
    IF res.error # Null
    THEN [ret |-> [data |-> Null, error |-> res.error], ls |-> removeItem(ls, "email")]
    ELSE [ret |-> [data |-> res.data, error |-> Null],
          ls |-> setItem(ls, "email", JSONstringify(email))]

verify2FALogin(email, res, ls) ==
    IF res.error # Null
    THEN [ret |-> [data |-> Null, error |-> res.error], ls |-> ls]
    ELSE [ret |-> [data |-> res.data, error |-> Null],
          ls |-> setItem(ls, "email", JSONstringify(email))]

verify2FARecoveryCode(email, res, ls) ==
    IF res.error # Null
    THEN [ret |-> [data |-> Null, error |-> res.error], ls |-> ls]
    ELSE [ret |-> [data |-> res.data, error |-> Null],
          ls |-> setItem(ls, "email", JSONstringify(email))]

signOut(res, ls) ==
    [ret |-> [error |-> res.error], ls |-> removeItem(ls, "email")]

\* Faulty variant: a getSession that keeps the marker when it fails.
getSessionKeepingMarker(res, ls) ==
    IF res.error # Null
    THEN [ret |-> [data |-> Null, error |-> res.error], ls |-> ls]
    ELSE [ret |-> [data |-> res.data, error |-> Null],
          ls |-> IF Truthy(res.data)
                 THEN setItem(ls, "email", JSONstringify(res.data.email))
                 ELSE ls]

getSession(res, ls) ==
    IF res.error # Null
    THEN [ret |-> [data |-> Null, error |-> res.error], ls |-> removeItem(ls, "email")]
    ELSE [ret |-> [data |-> res.data, error |-> Null],
          ls |-> IF Truthy(res.data)
                 THEN setItem(ls, "email", JSONstringify(res.data.email))
                 ELSE ls]

\* The operations that hand on apiRequest's error and nothing else
\* (`return { error: error || null }`).
confirmEmail(res) == [error |-> res.error]
forgotPassword(res) == [error |-> res.error]
resetPassword(res) == [error |-> res.error]
updateEmail(res) == [error |-> res.error]
changePassword(res) == [error |-> res.error]

\* The operations that hand on apiRequest's data and error
\* (`return { data, error: error || null }`).
getUserInfo(res) == [data |-> res.data, error |-> res.error]
get2FAInfo(res) == [data |-> res.data, error |-> res.error]
enable2FA(res) == [data |-> res.data, error |-> res.error]
disable2FA(res) == [data |-> res.data, error |-> res.error]
reset2FARecoveryCodes(res) == [data |-> res.data, error |-> res.error]
forget2FAMachine(res) == [error |-> res.error]

\* The stored string as [value |-> s], or Null (an empty string counts as none).
getStoredUserEmail(ls) ==
    IF getItem(ls, "email") # Null /\ getItem(ls, "email").value # << >>
    THEN getItem(ls, "email")
    ELSE Null

isAuthenticated(ls) == getStoredUserEmail(ls) # Null

\* The JSON object {} (a record without fields).
EmptyObject == [k \in {} |-> TRUE]

\* An optional argument: Null when the caller left it out, else [value |-> v].
Given(v) == [value |-> v]

\* The bodies the 2FA operations post to the manage-2fa endpoint. enable2FA adds
\* twoFactorCode when the code argument is truthy (given and not the empty
\* string) and resetSharedKey when the flag argument is truthy.
get2FAInfoBody == EmptyObject
\* Faulty variant: an enable2FA that sends resetSharedKey whenever the flag
\* argument was given, false included.
enable2FABodySendingGivenFlag(twoFactorCode, resetSharedKey) ==
    [enable |-> TRUE]
        @@ (IF twoFactorCode # Null /\ twoFactorCode.value # << >>
            THEN [twoFactorCode |-> twoFactorCode.value] ELSE EmptyObject)
        @@ (IF resetSharedKey # Null
            THEN [resetSharedKey |-> resetSharedKey.value] ELSE EmptyObject)
enable2FABody(twoFactorCode, resetSharedKey) ==
    [enable |-> TRUE]
        @@ (IF twoFactorCode # Null /\ twoFactorCode.value # << >>
            THEN [twoFactorCode |-> twoFactorCode.value] ELSE EmptyObject)
        @@ (IF resetSharedKey # Null /\ resetSharedKey.value
            THEN [resetSharedKey |-> resetSharedKey.value] ELSE EmptyObject)
disable2FABody == [enable |-> FALSE]
reset2FARecoveryCodesBody == [resetRecoveryCodes |-> TRUE]
forget2FAMachineBody == [forgetMachine |-> TRUE]

\* The endpoint each operation of the auth service calls ("" for a step that
\* is not one of them).
Endpoint(op) ==
    CASE op = "signUp" -> "/auth/register"
      [] op \in {"signIn", "verify2FALogin", "verify2FARecoveryCode"} -> "/auth/login"
      [] op = "signOut" -> "/auth/logout"
      [] op = "getSession" -> "/auth/pingauth"
      [] op = "confirmEmail" -> "/auth/confirmEmail"
      [] op = "forgotPassword" -> "/auth/forgotPassword"
      [] op = "resetPassword" -> "/auth/resetPassword"
      [] op \in {"getUserInfo", "updateEmail", "changePassword"} -> "/auth/manage/info"
      [] op \in {"get2FAInfo", "enable2FA", "disable2FA", "reset2FARecoveryCodes",
                 "forget2FAMachine"} -> "/auth/manage/2fa"
      [] op = "uploadInventoryImage" -> "/inventory/upload-image"
      [] op \in {"getInventoryItems", "getLowStockItems"} -> "/InventoryItems"
      [] op = "getInventoryItemTypes" -> "/InventoryItemTypes"
      [] op = "getRetailStock" -> "/RetailStock"
      [] op = "getRetailStockByInventoryItemId" -> "/RetailStock/GetByInventoryItem/1"
      [] OTHER -> ""

\* ------------------------------------------------------------- AuthContext
\* Faulty variant: a refreshSession that sets the session and forgets the user.
refreshSessionWithoutUser(ret) ==
    IF ret.error # Null \/ ~Truthy(ret.data)
    THEN [user |-> Null, session |-> Null]
    ELSE [user |-> Null, session |-> ret.data]

\* What refreshSession sets from the value getSession returned.
refreshSession(ret) ==
    IF ret.error # Null \/ ~Truthy(ret.data)
    THEN [user |-> Null, session |-> Null]
    ELSE [user |-> [email |-> ret.data.email], session |-> ret.data]

\* ---------------------------------------------------------- password policy
HasChar(password, chars) == \E i \in 1..Len(password) : password[i] \in chars

\* Faulty variant: a policy whose uppercase check accepts a letter of either case.
getPasswordRequirementsAnyCase(password) ==
    [minLength |-> Len(password) >= MinPasswordLength,
     hasLowercase |-> HasChar(password, LowercaseChars),
     hasUppercase |-> HasChar(password, LowercaseChars \cup UppercaseChars),
     hasNonAlphanumeric |->
        \E i \in 1..Len(password) :
            password[i] \notin LowercaseChars \cup UppercaseChars \cup DigitChars,
     hasDigit |-> HasChar(password, DigitChars)]

getPasswordRequirements(password) ==
    [minLength |-> Len(password) >= MinPasswordLength,
     hasLowercase |-> HasChar(password, LowercaseChars),
     hasUppercase |-> HasChar(password, UppercaseChars),
     hasNonAlphanumeric |->
        \E i \in 1..Len(password) :
            password[i] \notin LowercaseChars \cup UppercaseChars \cup DigitChars,
     hasDigit |-> HasChar(password, DigitChars)]

\* Faulty variant: a validatePassword that does not ask for a digit.
validatePasswordWithoutDigit(password) ==
    LET requirements == getPasswordRequirements(password) IN
    IF ~requirements.minLength THEN "Password must be at least 6 characters long"
    ELSE IF ~requirements.hasLowercase
    THEN "Password must have at least one lowercase letter ('a'-'z')"
    ELSE IF ~requirements.hasUppercase
    THEN "Password must have at least one uppercase letter ('A'-'Z')"
    ELSE IF ~requirements.hasNonAlphanumeric
    THEN "Password must have at least one non-alphanumeric character (e.g., !, @, #, $, %, etc.)"
    ELSE ""

\* Auth.validatePassword: the message of the first failed check, "" for none.
validatePassword(password) ==
    LET requirements == getPasswordRequirements(password) IN
    IF ~requirements.minLength THEN "Password must be at least 6 characters long"
    ELSE IF ~requirements.hasLowercase
    THEN "Password must have at least one lowercase letter ('a'-'z')"
    ELSE IF ~requirements.hasUppercase
    THEN "Password must have at least one uppercase letter ('A'-'Z')"
    ELSE IF ~requirements.hasNonAlphanumeric
    THEN "Password must have at least one non-alphanumeric character (e.g., !, @, #, $, %, etc.)"
    ELSE IF ~requirements.hasDigit
    THEN "Password must have at least one digit ('0'-'9')"
    ELSE ""

\* Object.values(passwordRequirements).every((req) => req)
allRequirementsMet(password) ==
    LET requirements == getPasswordRequirements(password) IN
    \A k \in DOMAIN requirements : requirements[k]

\* ------------------------------------------------------------------- state
VARIABLES
    localStorage,   \* the browser's localStorage: key -> Null or [value |-> s]
    user,           \* AuthProvider: user
    session,        \* AuthProvider: session
    loading,        \* AuthProvider: loading
    route,          \* the route the router shows
    locationState,  \* location.state of the route (the pending 2FA challenge)
    search,         \* the query parameters of the URL the page was opened with
    pc,             \* per handler: "idle", or the request it awaits
    inflight,       \* the requests sent and not yet resolved at the client
    toast,          \* the toast() call of the latest step, Null when it made none
    returned,       \* what the call the latest step awaited returned, Null for none
    evStatus,       \* EmailVerification: status
    evEffect,       \* EmailVerification: its effect is due (mount, or a new
                    \* refreshSession from a render of AuthProvider)
    cbStatus,       \* OAuthCallback: status
    cbEffect,       \* OAuthCallback: its effect is due (as evEffect)
    code,           \* TwoFactorAuth: code
    useRecoveryCode,\* TwoFactorAuth: useRecoveryCode
    recoveryCode,   \* TwoFactorAuth: recoveryCode
    twoFactorInfo,  \* Settings: twoFactorInfo
    settingsEffect, \* Settings: its mount effect is due
    items,          \* POS: items
    cart,           \* POS: cart
    posEffect,      \* POS: its effect on [user] is due
    serverSession,  \* backend: the session the cookie stands for, Null for none
    enrollment      \* backend: the 2FA enrollment state of the account

vars == <<localStorage, user, session, loading, route, locationState, search, pc,
          inflight, toast, returned, evStatus, evEffect, cbStatus, cbEffect,
          code, useRecoveryCode, recoveryCode, twoFactorInfo, settingsEffect,
          items, cart, posEffect, serverSession, enrollment>>

authVars == <<localStorage, user, session>>
\* TwoFactorAuth's form state.
tfaVars == <<code, useRecoveryCode, recoveryCode>>
\* Settings' state of the two-factor tab.
settingsVars == <<twoFactorInfo, settingsEffect>>
\* POS' state.
posVars == <<items, cart, posEffect>>
pageVars == <<route, locationState, search, tfaVars, settingsVars, posVars, evStatus, evEffect,
              cbStatus, cbEffect>>

Handlers == {"handleSignIn", "handleSignUp", "handleVerify", "handleSignOut",
             "handleUpdateEmail", "handleChangePassword", "handleEnable2FA",
             "handleDisable2FA", "verifyEmail", "handleSubmit", "handleCallback",
             "handleImageUpload", "load2FAInfo", "handleResetRecoveryCodes",
             "loadItems"}

Routes == {"/auth", "/auth/2fa", "/", "/settings", "/auth/reset-password",
           "/auth/confirm-email"}

\* The route of the Inventory page.
InventoryRoute == "/inventory"

\* The route of the POS page.
PosRoute == "/pos"

\* The routes whose page is wrapped in Layout.
LayoutRoutes == {"/", "/settings", InventoryRoute, PosRoute}

\* The route the identity provider sends the browser back to.
CallbackRoute == "/auth/callback"

NoSearch ==
    [email |-> << >>, code |-> << >>, userId |-> << >>, changedEmail |-> << >>,
     error |-> "", error_description |-> "", action |-> ""]

\* The query strings a page can be opened with.
SearchOf(r) ==
    IF r = "/auth/reset-password"
    THEN {[NoSearch EXCEPT !.email = EmailA, !.code = <<"c">>],
          [NoSearch EXCEPT !.email = EmailA]}
    ELSE IF r = "/auth/confirm-email"
    THEN {[NoSearch EXCEPT !.userId = <<"u">>, !.code = <<"c">>, !.changedEmail = EmailB],
          [NoSearch EXCEPT !.code = <<"c">>]}
    ELSE IF r = CallbackRoute
    THEN {[NoSearch EXCEPT !.error = e, !.error_description = d, !.action = a] :
             e \in {"", "access_denied"}, d \in {"", "User denied access"},
             a \in {"", "link", "unlink"}}
    ELSE {NoSearch}

Toast(variant, description) == [variant |-> variant, description |-> description]

\* The value `await op(...)` gave the handler run that resumed with the answer r.
Returned(r, ret) == [flow |-> r.flow, op |-> r.op, ret |-> ret]

\* A request on its way: the handler run (flow) that awaits it, the inputs that
\* run's continuation still holds (scope), and, once the backend has answered,
\* the outcome of the fetch (resp).
JsonHeaders == [ContentType |-> "application/json"]

Request(flow, scope, op, body) ==
    [flow |-> flow, scope |-> scope, op |-> op, endpoint |-> Endpoint(op),
     headers |-> JsonHeaders, body |-> body, stage |-> "sent", resp |-> Null]

\* The app has just been loaded at some URL: nothing rendered yet, the storage
\* and the backend as an earlier visit left them.
InitAt(routes, tokens, enrollments) ==
    /\ localStorage \in
          {[k \in StorageKeys |-> IF k = "email" THEN m ELSE t] :
              m \in {Null} \cup {[value |-> JSONstringify(e)] : e \in Emails},
              t \in tokens}
    /\ user = Null
    /\ session = Null
    /\ loading = TRUE
    /\ route \in routes
    /\ locationState = Null
    /\ search \in SearchOf(route)
    /\ pc = [h \in Handlers |-> "idle"]
    /\ inflight = {}
    /\ toast = Null
    /\ returned = Null
    /\ evStatus = "loading"
    /\ evEffect = (route = "/auth/confirm-email")
    /\ cbStatus = "loading"
    /\ cbEffect = (route = CallbackRoute)
    /\ code = << >>
    /\ useRecoveryCode = FALSE
    /\ recoveryCode = << >>
    /\ twoFactorInfo = Null
    /\ settingsEffect = (route = "/settings")
    /\ items = << >>
    /\ cart = << >>
    /\ posEffect = FALSE
    /\ enrollment \in enrollments
    /\ serverSession \in
          {Null} \cup {[email |-> e] : e \in Emails}

Init == InitAt(Routes, {Null}, {"Disabled"})

\* ----------------------------------------------------------------- backend
\* The identity backend, as the client's calls and the flow documents describe it.
Aborted == Thrown("AbortError", "The operation was aborted.")

LoginErrorBodies ==
    {ErrorBody(RequiresTwoFactor, "", "", "", {}),
     ErrorBody("Unauthorized", RequiresTwoFactor, "", "", {}),
     ErrorBody("Unauthorized", "Failed", "", "", {}),
     ErrorBody("", "", "Wrong password", "", {})}

Effect(resp, srv) == [resp |-> resp, serverSession |-> srv]

Unauthorized == Http(HttpUnauthorized, "text", EmptyText)
BadRequest(detail) == Http(HttpBadRequest, "json", ErrorBody("", detail, "", "", {}))
OkEmpty == Http(HttpOk, "text", EmptyText)

\* What the backend can make of a request it received: its response and the
\* session it holds afterwards.
\* What get-info answers for an account in the enrollment state enr.
TwoFactorInfoOf(enr) ==
    [sharedKey |-> "KEY", recoveryCodesLeft |-> 0,
     isTwoFactorEnabled |-> (enr = "Enabled"),
     isMachineRemembered |-> FALSE]

\* The enrollment state after the backend answered the request r with resp: a
\* begin-enable or reset-shared-key request that was served leaves a shared key
\* to verify against, a served confirmation enables, a served disable disables.
Enrollment(r, resp, enr) ==
    IF r.endpoint # "/auth/manage/2fa" \/ ~ResponseOk(resp) THEN enr
    ELSE IF ~("enable" \in DOMAIN r.body) THEN enr
    ELSE IF ~r.body.enable THEN "Disabled"
    ELSE IF "twoFactorCode" \in DOMAIN r.body THEN "Enabled"
    ELSE IF enr = "Enabled" THEN enr
    ELSE "PendingVerification"

ServerEffects(r, srv, enr) ==
    IF r.op = "signIn"
    THEN {Effect(OkEmpty, [email |-> r.body.email])}
         \cup {Effect(Http(HttpUnauthorized, "json", b), srv) : b \in LoginErrorBodies}
    ELSE IF r.op \in {"verify2FALogin", "verify2FARecoveryCode"}
    THEN {Effect(OkEmpty, [email |-> r.body.email]),
          Effect(Http(HttpUnauthorized, "json",
                      ErrorBody("Unauthorized", "Failed", "", "", {})), srv)}
    ELSE IF r.op = "signUp"
    THEN {Effect(OkEmpty, srv),
          Effect(OkEmpty, [email |-> r.body.email]),
          Effect(Http(HttpBadRequest, "json",
                      ErrorBody("One or more validation errors occurred.", "", "", "",
                                {"DuplicateUserName"})), srv)}
    ELSE IF r.op = "signOut"
    THEN {Effect(OkEmpty, Null), Effect(Unauthorized, srv)}
    ELSE IF r.op = "getSession"
    THEN IF srv # Null THEN {Effect(Http(HttpOk, "json", srv), srv)}
         ELSE {Effect(Unauthorized, srv), Effect(OkEmpty, srv)}
    ELSE IF r.op \in {"resetPassword", "confirmEmail"}
    THEN {Effect(OkEmpty, srv), Effect(BadRequest("Invalid token"), srv)}
         \cup IF r.op = "confirmEmail" /\ srv # Null /\ r.body.changedEmail # << >>
              THEN {Effect(OkEmpty, [srv EXCEPT !.email = r.body.changedEmail])}
              ELSE {}
    ELSE IF srv = Null
    THEN {Effect(Unauthorized, srv)}
    ELSE IF r.op = "getUserInfo"
    THEN {Effect(Http(HttpOk, "json", [email |-> srv.email, isEmailConfirmed |-> TRUE]),
                 srv)}
    ELSE IF r.op = "get2FAInfo"
    THEN {Effect(Http(HttpOk, "json", TwoFactorInfoOf(enr)), srv)}
    ELSE IF r.op = "enable2FA"
    THEN {Effect(Http(HttpOk, "json",
                      [isTwoFactorEnabled |-> TRUE, recoveryCodes |-> {"RC1", "RC2"}]),
                 srv),
          Effect(BadRequest("Invalid code"), srv)}
    ELSE IF r.op = "disable2FA"
    THEN {Effect(Http(HttpOk, "json", [isTwoFactorEnabled |-> FALSE]),
                 srv),
          Effect(BadRequest("Failed"), srv)}
    ELSE IF r.op = "reset2FARecoveryCodes"
    THEN {Effect(Http(HttpOk, "json",
                      [recoveryCodes |-> {"RC3", "RC4"}, recoveryCodesLeft |-> 2]), srv),
          Effect(BadRequest("Failed"), srv)}
    ELSE IF r.op = "uploadInventoryImage"
    THEN {Effect(Http(HttpOk, "json", [url |-> "/images/1"]), srv),
          Effect(Http(HttpBadRequest, "json", ErrorBody("", "", "Invalid image", "", {})),
                 srv)}
    ELSE \* updateEmail, changePassword
         {Effect(OkEmpty, srv), Effect(BadRequest("Invalid password"), srv)}

\* Every way a request can end at the client: answered, or aborted by the
\* timeout, whether or not the backend had acted on it.
Outcomes(r, srv, enr) ==
    LET acted == {[resp |-> e.resp, serverSession |-> e.serverSession,
                   enrollment |-> Enrollment(r, e.resp, enr)] :
                     e \in ServerEffects(r, srv, enr)}
    IN acted \cup {[a EXCEPT !.resp = Aborted] : a \in acted}

\* The network and the backend resolve one request.
Backend ==
    \E r \in inflight :
        /\ r.stage = "sent"
        /\ \E o \in Outcomes(r, serverSession, enrollment) :
            /\ inflight' = (inflight \ {r}) \cup {[r EXCEPT !.stage = "replied",
                                                           !.resp = o.resp]}
            /\ serverSession' = o.serverSession
            /\ enrollment' = o.enrollment
        /\ toast' = Null
        /\ returned' = Null
        /\ UNCHANGED <<authVars, loading, pageVars, pc>>

\* ------------------------------------------------------------ shared steps
Replied(flow, op) ==
    {r \in inflight : r.flow = flow /\ r.op = op /\ r.stage = "replied"}

\* No run of the handler h is under way (the model follows one run of a handler
\* at a time).
Idle(h) == pc[h] = "idle"

\* A handler sends its first request.
Start(flow, scope, op, body) ==
    /\ Cardinality(inflight) < MaxInflight
    /\ inflight' = inflight \cup {Request(flow, scope, op, body)}
    /\ pc' = [pc EXCEPT ![flow] = op]

\* A handler that got the answer r sends its next request.
Continue(r, op, body) ==
    /\ inflight' = (inflight \ {r}) \cup {Request(r.flow, r.scope, op, body)}
    /\ pc' = [pc EXCEPT ![r.flow] = op]

\* A handler that got the answer r returns.
Finish(r) ==
    /\ inflight' = inflight \ {r}
    /\ pc' = [pc EXCEPT ![r.flow] = "idle"]

\* navigate(to, {state}): a new location, with its own state and no query; the
\* page it shows mounts with its initial component state.
Navigate(to, state) ==
    /\ route' = to
    /\ locationState' = state
    /\ search' = NoSearch
    /\ evStatus' = "loading"
    /\ evEffect' = (to = "/auth/confirm-email")
    /\ cbStatus' = "loading"
    /\ cbEffect' = (to = CallbackRoute)
    /\ code' = << >>
    /\ useRecoveryCode' = FALSE
    /\ recoveryCode' = << >>
    /\ twoFactorInfo' = Null
    /\ settingsEffect' = (to = "/settings")
    /\ items' = << >>
    /\ cart' = << >>
    /\ posEffect' = (to = PosRoute /\ user # Null)

\* refreshSession from `await getSession()` on: getSession's storage update, then
\* the context's setUser and setSession.
RefreshResolves(r) ==
    LET got == getSession(apiRequest(r.resp), localStorage)
        ctx == refreshSession(got.ret)
    IN /\ localStorage' = got.ls
       /\ user' = ctx.user
       /\ session' = ctx.session
       /\ returned' = Returned(r, got.ret)

\* AuthProvider's mount effect.
initAuth ==
    /\ loading
    /\ user' = IF isAuthenticated(localStorage) /\ getStoredUserEmail(localStorage) # Null
               THEN [email |-> getStoredUserEmail(localStorage).value]
               ELSE user
    /\ loading' = FALSE
    /\ evEffect' = (route = "/auth/confirm-email")
    /\ cbEffect' = (route = CallbackRoute)
    /\ posEffect' = (route = PosRoute /\ user' # user)
    /\ toast' = Null
    /\ returned' = Null
    /\ UNCHANGED <<localStorage, session, route, locationState, search, tfaVars,
                   settingsVars, items, cart, evStatus, cbStatus, pc, inflight,
                   serverSession, enrollment>>

\* --------------------------------------------------------------- Auth page
\* The page's `loading` state: set when a submit starts, cleared when it ends.
AuthLoading == ~Idle("handleSignIn") \/ ~Idle("handleSignUp")

\* handleSignIn up to `await signIn(...)`.
handleSignIn ==
    /\ route = "/auth" /\ ~loading /\ ~AuthLoading
    /\ \E email \in EmailInputs, password \in {PwGood, << >>} :
        IF email = << >> \/ password = << >>
        THEN /\ toast' = Toast("destructive", "Please fill in all fields")
             /\ UNCHANGED <<pc, inflight>>
        ELSE /\ Start("handleSignIn", [email |-> email], "signIn",
                      [email |-> email, password |-> password])
             /\ toast' = Null
    /\ returned' = Null
    /\ UNCHANGED <<authVars, loading, pageVars, serverSession, enrollment>>

\* handleSignIn from the answer to signIn up to `await refreshSession()`.
handleSignInSignedIn ==
    \E r \in Replied("handleSignIn", "signIn") :
        LET out == signIn(r.scope.email, apiRequest(r.resp), localStorage)
            error == out.ret.error
        IN /\ localStorage' = out.ls
           /\ IF error # Null
              THEN /\ Finish(r)
                   /\ IF error.status = HttpUnauthorized
                         /\ error.message = RequiresTwoFactor
                      THEN /\ Navigate("/auth/2fa", [email |-> r.body.email,
                                                     password |-> r.body.password])
                           /\ toast' = Null
                      ELSE /\ toast' = Toast("destructive", error.message)
                           /\ UNCHANGED pageVars
              ELSE /\ Continue(r, "getSession", Null)
                   /\ toast' = Null
                   /\ UNCHANGED <<pageVars>>
           /\ returned' = Returned(r, out.ret)
           /\ UNCHANGED <<user, session, loading, serverSession, enrollment>>

\* handleSignIn from the answer to refreshSession up to `await getUserInfo()`.
handleSignInRefreshed ==
    \E r \in Replied("handleSignIn", "getSession") :
        /\ RefreshResolves(r)
        /\ toast' = Toast("default", "Signed in successfully!")
        /\ Continue(r, "getUserInfo", Null)
        /\ UNCHANGED <<loading, pageVars, serverSession, enrollment>>

\* handleSignIn from the answer to getUserInfo to its end.
handleSignInDone ==
    \E r \in Replied("handleSignIn", "getUserInfo") :
        /\ Finish(r)
        /\ Navigate("/", Null)
        /\ toast' = Null
        /\ returned' = Returned(r, getUserInfo(apiRequest(r.resp)))
        /\ UNCHANGED <<authVars, loading, serverSession, enrollment>>

\* handleSignUp up to `await signUp(...)`.
handleSignUp ==
    /\ route = "/auth" /\ ~loading /\ ~AuthLoading
    /\ \E name \in {<<"n">>}, email \in EmailInputs, password \in PasswordInputs :
        IF name = << >> \/ email = << >> \/ password = << >>
        THEN /\ toast' = Toast("destructive", "Please fill in all fields")
             /\ UNCHANGED <<pc, inflight>>
        ELSE IF validatePassword(password) # ""
        THEN /\ toast' = Toast("destructive", validatePassword(password))
             /\ UNCHANGED <<pc, inflight>>
        ELSE /\ Start("handleSignUp", [email |-> email], "signUp",
                      [name |-> name, email |-> email, password |-> password])
             /\ toast' = Null
    /\ returned' = Null
    /\ UNCHANGED <<authVars, loading, pageVars, serverSession, enrollment>>

\* handleSignUp from the answer to signUp up to `await refreshSession()`.
handleSignUpSignedUp ==
    \E r \in Replied("handleSignUp", "signUp") :
        LET out == signUp(r.scope.email, apiRequest(r.resp), localStorage)
            error == out.ret.error
        IN /\ localStorage' = out.ls
           /\ IF error # Null
              THEN /\ Finish(r)
                   /\ toast' = Toast("destructive",
                                     IF error.errors # {} THEN "field errors"
                                     ELSE error.message)
              ELSE /\ Continue(r, "getSession", Null)
                   /\ toast' = Null
           /\ returned' = Returned(r, out.ret)
           /\ UNCHANGED <<user, session, loading, pageVars, serverSession, enrollment>>

\* handleSignUp from the answer to refreshSession to its end.
handleSignUpRefreshed ==
    \E r \in Replied("handleSignUp", "getSession") :
        /\ RefreshResolves(r)
        /\ toast' = Toast("default",
               "Account created successfully! You can now login with your credentials")
        /\ Finish(r)
        /\ Navigate("/", Null)
        /\ UNCHANGED <<loading, serverSession, enrollment>>

\* ------------------------------------------------------ TwoFactorAuth page
\* Faulty variant: a redirect that first asks the backend for the session.
TwoFactorAuthRedirectRefreshing ==
    /\ route = "/auth/2fa" /\ locationState = Null /\ Idle("handleVerify")
    /\ Start("handleVerify", [email |-> << >>, useRecoveryCode |-> FALSE],
             "getSession", Null)
    /\ Navigate("/auth", Null)
    /\ toast' = Null
    /\ returned' = Null
    /\ UNCHANGED <<authVars, loading, serverSession, enrollment>>

\* The page renders without the pending challenge: back to the sign-in page.
TwoFactorAuthRedirect ==
    /\ route = "/auth/2fa" /\ locationState = Null
    /\ Navigate("/auth", Null)
    /\ toast' = Null
    /\ returned' = Null
    /\ UNCHANGED <<authVars, loading, pc, inflight, serverSession, enrollment>>

\* The one-time-code input's onChange (the input is disabled while a
\* verification is awaited).
setCode ==
    /\ route = "/auth/2fa" /\ locationState # Null /\ ~loading /\ Idle("handleVerify")
    /\ ~useRecoveryCode
    /\ \E value \in CodeInputs \ {code} : code' = value
    /\ toast' = Null
    /\ returned' = Null
    /\ UNCHANGED <<authVars, loading, route, locationState, search, useRecoveryCode,
                   recoveryCode, settingsVars, posVars, evStatus, evEffect, cbStatus, cbEffect, pc, inflight,
                   serverSession, enrollment>>

\* The recovery-code input's onChange (disabled as the other input is).
setRecoveryCode ==
    /\ route = "/auth/2fa" /\ locationState # Null /\ ~loading /\ Idle("handleVerify")
    /\ useRecoveryCode
    /\ \E value \in CodeInputs \ {recoveryCode} : recoveryCode' = value
    /\ toast' = Null
    /\ returned' = Null
    /\ UNCHANGED <<authVars, loading, route, locationState, search, code,
                   useRecoveryCode, settingsVars, posVars, evStatus, evEffect, cbStatus, cbEffect, pc,
                   inflight, serverSession, enrollment>>

\* The "Use recovery code instead" / "Use authenticator app instead" button
\* (disabled while a verification is awaited).
toggleUseRecoveryCode ==
    /\ route = "/auth/2fa" /\ locationState # Null /\ ~loading /\ Idle("handleVerify")
    /\ useRecoveryCode' = ~useRecoveryCode
    /\ code' = << >>
    /\ recoveryCode' = << >>
    /\ toast' = Null
    /\ returned' = Null
    /\ UNCHANGED <<authVars, loading, route, locationState, search, settingsVars, posVars,
                   evStatus, evEffect, cbStatus, cbEffect, pc, inflight, serverSession,
                   enrollment>>

\* handleVerify up to `await verify2FALogin(...)` or `await verify2FARecoveryCode(...)`.
handleVerify ==
    /\ route = "/auth/2fa" /\ locationState # Null /\ ~loading /\ Idle("handleVerify")
    /\ IF ~useRecoveryCode /\ Len(code) # TotpCodeLength
       THEN /\ toast' = Toast("destructive", "Please enter a 6-digit code")
            /\ UNCHANGED <<pc, inflight>>
       ELSE IF useRecoveryCode /\ Trim(recoveryCode) = << >>
       THEN /\ toast' = Toast("destructive", "Please enter a recovery code")
            /\ UNCHANGED <<pc, inflight>>
       ELSE /\ IF useRecoveryCode
               THEN Start("handleVerify",
                          [email |-> locationState.email,
                           useRecoveryCode |-> useRecoveryCode],
                          "verify2FARecoveryCode",
                          [email |-> locationState.email,
                           password |-> locationState.password,
                           twoFactorRecoveryCode |-> Trim(recoveryCode)])
               ELSE Start("handleVerify",
                          [email |-> locationState.email,
                           useRecoveryCode |-> useRecoveryCode],
                          "verify2FALogin",
                          [email |-> locationState.email,
                           password |-> locationState.password,
                           twoFactorCode |-> code])
            /\ toast' = Null
    /\ returned' = Null
    /\ UNCHANGED <<authVars, loading, pageVars, serverSession, enrollment>>

\* Faulty variant: a failed verification that leaves the entered code in its field.
handleVerifyVerifiedKeepingCode ==
    \E r \in inflight :
        /\ r.flow = "handleVerify" /\ r.stage = "replied"
        /\ r.op \in {"verify2FALogin", "verify2FARecoveryCode"}
        /\ LET out == IF r.op = "verify2FALogin"
                      THEN verify2FALogin(r.scope.email, apiRequest(r.resp), localStorage)
                      ELSE verify2FARecoveryCode(r.scope.email, apiRequest(r.resp),
                                                 localStorage)
               error == out.ret.error
           IN /\ localStorage' = out.ls
              /\ IF error # Null
                 THEN /\ Finish(r)
                      /\ toast' = Toast("destructive",
                             Or(error.message,
                                IF r.scope.useRecoveryCode
                                THEN "Invalid recovery code. Please try again."
                                ELSE "Invalid verification code. Please try again."))
                 ELSE /\ Continue(r, "getSession", Null)
                      /\ toast' = Null
              /\ returned' = Returned(r, out.ret)
        /\ UNCHANGED <<user, session, loading, pageVars, serverSession, enrollment>>

\* handleVerify from the answer to the verification up to `await refreshSession()`;
\* a failed one clears the field of the mode the attempt was made in.
handleVerifyVerified ==
    \E r \in inflight :
        /\ r.flow = "handleVerify" /\ r.stage = "replied"
        /\ r.op \in {"verify2FALogin", "verify2FARecoveryCode"}
        /\ LET out == IF r.op = "verify2FALogin"
                      THEN verify2FALogin(r.scope.email, apiRequest(r.resp), localStorage)
                      ELSE verify2FARecoveryCode(r.scope.email, apiRequest(r.resp),
                                                 localStorage)
               error == out.ret.error
           IN /\ localStorage' = out.ls
              /\ IF error # Null
                 THEN /\ Finish(r)
                      /\ toast' = Toast("destructive",
                             Or(error.message,
                                IF r.scope.useRecoveryCode
                                THEN "Invalid recovery code. Please try again."
                                ELSE "Invalid verification code. Please try again."))
                      /\ IF r.scope.useRecoveryCode
                         THEN recoveryCode' = << >> /\ UNCHANGED code
                         ELSE code' = << >> /\ UNCHANGED recoveryCode
                 ELSE /\ Continue(r, "getSession", Null)
                      /\ toast' = Null
                      /\ UNCHANGED <<code, recoveryCode>>
              /\ returned' = Returned(r, out.ret)
        /\ UNCHANGED <<user, session, loading, route, locationState, search,
                       useRecoveryCode, settingsVars, posVars, evStatus, evEffect, cbStatus, cbEffect,
                       serverSession, enrollment>>

\* handleVerify from the answer to refreshSession to its end.
handleVerifyRefreshed ==
    \E r \in Replied("handleVerify", "getSession") :
        /\ RefreshResolves(r)
        /\ toast' = Toast("default", "Signed in successfully!")
        /\ Finish(r)
        /\ Navigate("/", Null)
        /\ UNCHANGED <<loading, serverSession, enrollment>>

\* The "Back to login" button (disabled while a verification is awaited).
BackToLogin ==
    /\ route = "/auth/2fa" /\ locationState # Null
    /\ Idle("handleVerify")
    /\ Navigate("/auth", Null)
    /\ toast' = Null
    /\ returned' = Null
    /\ UNCHANGED <<authVars, loading, pc, inflight, serverSession, enrollment>>

\* ------------------------------------------------------------------ Layout
\* handleSignOut up to `await signOut()`.
handleSignOut ==
    /\ route \in LayoutRoutes /\ ~loading /\ Idle("handleSignOut")
    /\ Start("handleSignOut", Null, "signOut", Null)
    /\ toast' = Null
    /\ returned' = Null
    /\ UNCHANGED <<authVars, loading, pageVars, serverSession, enrollment>>

\* handleSignOut from the answer to signOut up to `await refreshSession()`.
handleSignOutSignedOut ==
    \E r \in Replied("handleSignOut", "signOut") :
        LET out == signOut(apiRequest(r.resp), localStorage)
            error == out.ret.error
        IN /\ localStorage' = out.ls
           /\ IF error # Null
              THEN /\ Finish(r)
                   /\ toast' = Toast("destructive", error.message)
              ELSE /\ Continue(r, "getSession", Null)
                   /\ toast' = Null
           /\ returned' = Returned(r, out.ret)
           /\ UNCHANGED <<user, session, loading, pageVars, serverSession, enrollment>>

\* handleSignOut from the answer to refreshSession to its end.
handleSignOutRefreshed ==
    \E r \in Replied("handleSignOut", "getSession") :
        /\ RefreshResolves(r)
        /\ toast' = Toast("default", "Signed out successfully")
        /\ Finish(r)
        /\ Navigate("/auth", Null)
        /\ UNCHANGED <<loading, serverSession, enrollment>>

\* ----------------------------------------------------------- Settings page
\* The page's `loading` state: set around the awaited mutating call only.
SettingsLoading ==
    \/ pc["handleUpdateEmail"] = "updateEmail"
    \/ pc["handleChangePassword"] = "changePassword"
    \/ pc["handleEnable2FA"] = "enable2FA"
    \/ pc["handleDisable2FA"] = "disable2FA"
    \/ pc["handleResetRecoveryCodes"] = "reset2FARecoveryCodes"

\* What the rest of the page keeps while the two-factor tab loads its status.
settingsFrame ==
    <<authVars, loading, route, locationState, search, tfaVars, posVars, evStatus,
      evEffect, cbStatus, cbEffect, serverSession, enrollment>>

\* load2FAInfo from the answer to get2FAInfo on: the status is stored when the
\* probe returned one, and left as it was when the probe failed.
LoadTwoFactorInfoResolves(r) ==
    LET res == get2FAInfo(apiRequest(r.resp)) IN
    twoFactorInfo' = IF res.error = Null /\ Truthy(res.data) /\ route = "/settings"
                     THEN res.data
                     ELSE twoFactorInfo

\* The mount effect's load2FAInfo up to `await get2FAInfo()`.
load2FAInfo ==
    /\ route = "/settings" /\ settingsEffect /\ ~loading /\ Idle("load2FAInfo")
    /\ Start("load2FAInfo", Null, "get2FAInfo", get2FAInfoBody)
    /\ settingsEffect' = FALSE
    /\ toast' = Null
    /\ returned' = Null
    /\ UNCHANGED <<settingsFrame, twoFactorInfo>>

\* The mount effect's load2FAInfo from the answer to get2FAInfo to its end.
load2FAInfoDone ==
    \E r \in Replied("load2FAInfo", "get2FAInfo") :
        /\ Finish(r)
        /\ LoadTwoFactorInfoResolves(r)
        /\ toast' = Null
        /\ returned' = Returned(r, get2FAInfo(apiRequest(r.resp)))
        /\ UNCHANGED <<settingsFrame, settingsEffect>>

\* The tab shows the enrollment form (a status is loaded and says disabled), or
\* the buttons of an enabled account.
ShowsEnrollmentForm == twoFactorInfo # Null /\ ~twoFactorInfo.isTwoFactorEnabled
ShowsEnabled == twoFactorInfo # Null /\ twoFactorInfo.isTwoFactorEnabled

\* loadUserInfo from the answer to getUserInfo on.
LoadUserInfoResolves(r) ==
    LET res == apiRequest(r.resp) IN
    toast' = IF res.error # Null THEN Toast("destructive", res.error.message) ELSE Null

\* handleUpdateEmail up to `await updateEmail(...)`.
handleUpdateEmail ==
    /\ route = "/settings" /\ ~loading /\ ~SettingsLoading /\ Idle("handleUpdateEmail")
    /\ \E newEmail \in EmailInputs, emailPassword \in {PwGood, << >>} :
        IF newEmail = << >> \/ emailPassword = << >>
        THEN /\ toast' = Toast("destructive", "Please fill in all fields")
             /\ UNCHANGED <<pc, inflight>>
        ELSE /\ Start("handleUpdateEmail", Null, "updateEmail",
                      [newEmail |-> newEmail, password |-> emailPassword])
             /\ toast' = Null
    /\ returned' = Null
    /\ UNCHANGED <<authVars, loading, pageVars, serverSession, enrollment>>

\* Faulty variant: a handleUpdateEmail that refreshes whatever updateEmail answered.
handleUpdateEmailRefreshingAlways ==
    \E r \in Replied("handleUpdateEmail", "updateEmail") :
        LET error == apiRequest(r.resp).error IN
        /\ Continue(r, "getSession", Null)
        /\ toast' = IF error # Null THEN Toast("destructive", error.message)
                    ELSE Toast("default", EmailUpdateInitiated)
        /\ returned' = Returned(r, updateEmail(apiRequest(r.resp)))
        /\ UNCHANGED <<authVars, loading, pageVars, serverSession, enrollment>>

\* handleUpdateEmail from the answer to updateEmail up to `await refreshSession()`.
handleUpdateEmailUpdated ==
    \E r \in Replied("handleUpdateEmail", "updateEmail") :
        LET error == apiRequest(r.resp).error IN
        /\ IF error # Null
           THEN /\ Finish(r)
                /\ toast' = Toast("destructive", error.message)
           ELSE /\ Continue(r, "getSession", Null)
                /\ toast' = Toast("default", EmailUpdateInitiated)
        /\ returned' = Returned(r, updateEmail(apiRequest(r.resp)))
        /\ UNCHANGED <<authVars, loading, pageVars, serverSession, enrollment>>

\* handleUpdateEmail from the answer to refreshSession up to `await loadUserInfo()`.
handleUpdateEmailRefreshed ==
    \E r \in Replied("handleUpdateEmail", "getSession") :
        /\ RefreshResolves(r)
        /\ Continue(r, "getUserInfo", Null)
        /\ toast' = Null
        /\ UNCHANGED <<loading, pageVars, serverSession, enrollment>>

\* handleUpdateEmail from the answer to getUserInfo to its end.
handleUpdateEmailDone ==
    \E r \in Replied("handleUpdateEmail", "getUserInfo") :
        /\ LoadUserInfoResolves(r)
        /\ returned' = Returned(r, getUserInfo(apiRequest(r.resp)))
        /\ Finish(r)
        /\ UNCHANGED <<authVars, loading, pageVars, serverSession, enrollment>>

\* handleChangePassword up to `await changePassword(...)`.
handleChangePassword ==
    /\ route = "/settings" /\ ~loading /\ ~SettingsLoading
    /\ Idle("handleChangePassword")
    /\ \E oldPassword \in {PwGood}, newPassword \in PasswordInputs :
       \E confirmPassword \in {newPassword, PwGood, << >>} :
        IF oldPassword = << >> \/ newPassword = << >> \/ confirmPassword = << >>
        THEN /\ toast' = Toast("destructive", "Please fill in all fields")
             /\ UNCHANGED <<pc, inflight>>
        ELSE IF newPassword # confirmPassword
        THEN /\ toast' = Toast("destructive", "New passwords do not match")
             /\ UNCHANGED <<pc, inflight>>
        ELSE IF ~allRequirementsMet(newPassword)
        THEN /\ toast' = Toast("destructive", "Password does not meet all requirements")
             /\ UNCHANGED <<pc, inflight>>
        ELSE /\ Start("handleChangePassword", Null, "changePassword",
                      [oldPassword |-> oldPassword, newPassword |-> newPassword])
             /\ toast' = Null
    /\ returned' = Null
    /\ UNCHANGED <<authVars, loading, pageVars, serverSession, enrollment>>

\* handleChangePassword from the answer to changePassword to its end.
handleChangePasswordDone ==
    \E r \in Replied("handleChangePassword", "changePassword") :
        LET error == apiRequest(r.resp).error IN
        /\ Finish(r)
        /\ toast' = IF error # Null THEN Toast("destructive", error.message)
                    ELSE Toast("default", "Password changed successfully")
        /\ returned' = Returned(r, changePassword(apiRequest(r.resp)))
        /\ UNCHANGED <<authVars, loading, pageVars, serverSession, enrollment>>

\* handleEnable2FA up to `await enable2FA(mfaCode)`.
handleEnable2FA ==
    /\ route = "/settings" /\ ~loading /\ ~SettingsLoading /\ Idle("handleEnable2FA")
    /\ ShowsEnrollmentForm
    /\ \E mfaCode \in {TotpCode, << >>} :
        IF mfaCode = << >>
        THEN /\ toast' = Toast("destructive", "Please enter the verification code")
             /\ UNCHANGED <<pc, inflight>>
        ELSE /\ Start("handleEnable2FA", Null, "enable2FA", enable2FABody(Given(mfaCode), Null))
             /\ toast' = Null
    /\ returned' = Null
    /\ UNCHANGED <<authVars, loading, pageVars, serverSession, enrollment>>

\* handleEnable2FA from the answer to enable2FA up to `await refreshSession()`.
handleEnable2FAEnabled ==
    \E r \in Replied("handleEnable2FA", "enable2FA") :
        LET res == apiRequest(r.resp) IN
        /\ IF res.error # Null
           THEN /\ Finish(r)
                /\ toast' = Toast("destructive", res.error.message)
           ELSE IF Truthy(res.data)
           THEN /\ Continue(r, "getSession", Null)
                /\ toast' = Null
           ELSE /\ Finish(r)
                /\ toast' = Null
        /\ returned' = Returned(r, enable2FA(apiRequest(r.resp)))
        /\ UNCHANGED <<authVars, loading, pageVars, serverSession, enrollment>>

\* handleEnable2FA from the answer to refreshSession up to `await load2FAInfo()`.
handleEnable2FARefreshed ==
    \E r \in Replied("handleEnable2FA", "getSession") :
        /\ RefreshResolves(r)
        /\ Continue(r, "get2FAInfo", get2FAInfoBody)
        /\ toast' = Null
        /\ UNCHANGED <<loading, pageVars, serverSession, enrollment>>

\* handleEnable2FA from the answer to get2FAInfo to its end.
handleEnable2FADone ==
    \E r \in Replied("handleEnable2FA", "get2FAInfo") :
        /\ toast' = Toast("default", "Two-factor authentication enabled")
        /\ Finish(r)
        /\ LoadTwoFactorInfoResolves(r)
        /\ returned' = Returned(r, get2FAInfo(apiRequest(r.resp)))
        /\ UNCHANGED <<settingsFrame, settingsEffect>>

\* handleDisable2FA up to `await disable2FA()`.
handleDisable2FA ==
    /\ route = "/settings" /\ ~loading /\ ~SettingsLoading /\ Idle("handleDisable2FA")
    /\ ShowsEnabled
    /\ Start("handleDisable2FA", Null, "disable2FA", disable2FABody)
    /\ toast' = Null
    /\ returned' = Null
    /\ UNCHANGED <<authVars, loading, pageVars, serverSession, enrollment>>

\* handleDisable2FA from the answer to disable2FA up to `await refreshSession()`.
handleDisable2FADisabled ==
    \E r \in Replied("handleDisable2FA", "disable2FA") :
        LET error == apiRequest(r.resp).error IN
        /\ IF error # Null
           THEN /\ Finish(r)
                /\ toast' = Toast("destructive", error.message)
           ELSE /\ Continue(r, "getSession", Null)
                /\ toast' = Toast("default", "Two-factor authentication disabled")
        /\ returned' = Returned(r, disable2FA(apiRequest(r.resp)))
        /\ UNCHANGED <<authVars, loading, pageVars, serverSession, enrollment>>

\* handleDisable2FA from the answer to refreshSession up to `await load2FAInfo()`.
handleDisable2FARefreshed ==
    \E r \in Replied("handleDisable2FA", "getSession") :
        /\ RefreshResolves(r)
        /\ Continue(r, "get2FAInfo", get2FAInfoBody)
        /\ toast' = Null
        /\ UNCHANGED <<loading, pageVars, serverSession, enrollment>>

\* handleDisable2FA from the answer to get2FAInfo to its end.
handleDisable2FADone ==
    \E r \in Replied("handleDisable2FA", "get2FAInfo") :
        /\ Finish(r)
        /\ LoadTwoFactorInfoResolves(r)
        /\ toast' = Null
        /\ returned' = Returned(r, get2FAInfo(apiRequest(r.resp)))
        /\ UNCHANGED <<settingsFrame, settingsEffect>>

\* handleResetRecoveryCodes up to `await reset2FARecoveryCodes()`.
handleResetRecoveryCodes ==
    /\ route = "/settings" /\ ~loading /\ ~SettingsLoading
    /\ Idle("handleResetRecoveryCodes")
    /\ ShowsEnabled
    /\ Start("handleResetRecoveryCodes", Null, "reset2FARecoveryCodes",
             reset2FARecoveryCodesBody)
    /\ toast' = Null
    /\ returned' = Null
    /\ UNCHANGED <<authVars, loading, pageVars, serverSession, enrollment>>

\* handleResetRecoveryCodes from the answer to reset2FARecoveryCodes to its end.
handleResetRecoveryCodesDone ==
    \E r \in Replied("handleResetRecoveryCodes", "reset2FARecoveryCodes") :
        LET res == reset2FARecoveryCodes(apiRequest(r.resp)) IN
        /\ Finish(r)
        /\ toast' = IF res.error # Null
                    THEN Toast("destructive", res.error.message)
                    ELSE IF Truthy(res.data) /\ "recoveryCodes" \in DOMAIN res.data
                    THEN Toast("default", "Recovery codes reset successfully")
                    ELSE Null
        /\ returned' = Returned(r, res)
        /\ UNCHANGED <<authVars, loading, pageVars, serverSession, enrollment>>

\* -------------------------------------------------- EmailVerification page
\* The mount effect verifyEmail up to `await confirmEmail(...)`.
verifyEmail ==
    /\ route = "/auth/confirm-email" /\ evEffect /\ Idle("verifyEmail")
    /\ evEffect' = FALSE
    /\ IF search.userId = << >> \/ search.code = << >>
       THEN /\ evStatus' = "error"
            /\ UNCHANGED <<pc, inflight>>
       ELSE /\ Start("verifyEmail", Null, "confirmEmail",
                     [userId |-> search.userId, code |-> search.code,
                      changedEmail |-> search.changedEmail])
            /\ UNCHANGED evStatus
    /\ toast' = Null
    /\ returned' = Null
    /\ UNCHANGED <<authVars, loading, route, locationState, search, tfaVars, settingsVars, posVars, cbStatus, cbEffect,
                   serverSession, enrollment>>

\* verifyEmail from the answer to confirmEmail up to `await refreshSession()`.
verifyEmailConfirmed ==
    \E r \in Replied("verifyEmail", "confirmEmail") :
        LET error == apiRequest(r.resp).error IN
        /\ IF error # Null
           THEN /\ Finish(r)
                /\ evStatus' = IF route = "/auth/confirm-email" THEN "error" ELSE evStatus
           ELSE /\ Continue(r, "getSession", Null)
                /\ evStatus' = IF route = "/auth/confirm-email" THEN "success"
                               ELSE evStatus
        /\ toast' = Null
        /\ returned' = Returned(r, confirmEmail(apiRequest(r.resp)))
        /\ UNCHANGED <<authVars, loading, route, locationState, search, tfaVars, settingsVars, posVars, evEffect,
                       cbStatus, cbEffect, serverSession, enrollment>>

\* verifyEmail from the answer to refreshSession to its end.
verifyEmailRefreshed ==
    \E r \in Replied("verifyEmail", "getSession") :
        /\ RefreshResolves(r)
        /\ Finish(r)
        /\ evEffect' = \/ evEffect
                       \/ /\ route = "/auth/confirm-email"
                          /\ \/ user' # Null \/ session' # Null
                             \/ user # Null \/ session # Null
        /\ toast' = Null
        /\ UNCHANGED <<loading, route, locationState, search, tfaVars, settingsVars, posVars, evStatus, cbStatus,
                       cbEffect, serverSession, enrollment>>

\* The buttons the page shows once the verification has ended.
EmailVerificationLeave ==
    /\ route = "/auth/confirm-email"
    /\ \E to \in IF evStatus = "success" THEN {"/"}
                 ELSE IF evStatus = "error" THEN {"/settings", "/auth"}
                 ELSE {} :
        Navigate(to, Null)
    /\ toast' = Null
    /\ returned' = Null
    /\ UNCHANGED <<authVars, loading, pc, inflight, serverSession, enrollment>>

\* ------------------------------------------------------ ResetPassword page
\* handleSubmit up to `await resetPassword(...)`.
handleSubmit ==
    /\ route = "/auth/reset-password" /\ ~loading /\ Idle("handleSubmit")
    /\ \E newPassword \in PasswordInputs :
       \E confirmPassword \in {newPassword, PwGood, << >>} :
        IF search.email = << >> \/ search.code = << >>
        THEN /\ toast' = Toast("destructive",
                    "Invalid reset link. Please request a new password reset.")
             /\ UNCHANGED <<pc, inflight>>
        ELSE IF newPassword = << >> \/ confirmPassword = << >>
        THEN /\ toast' = Toast("destructive", "Please fill in all fields")
             /\ UNCHANGED <<pc, inflight>>
        ELSE IF newPassword # confirmPassword
        THEN /\ toast' = Toast("destructive", "Passwords do not match")
             /\ UNCHANGED <<pc, inflight>>
        ELSE IF ~allRequirementsMet(newPassword)
        THEN /\ toast' = Toast("destructive", "Password does not meet all requirements")
             /\ UNCHANGED <<pc, inflight>>
        ELSE /\ Start("handleSubmit", Null, "resetPassword",
                      [email |-> search.email, resetCode |-> search.code,
                       newPassword |-> newPassword])
             /\ toast' = Null
    /\ returned' = Null
    /\ UNCHANGED <<authVars, loading, pageVars, serverSession, enrollment>>

\* handleSubmit from the answer to resetPassword to its end.
handleSubmitDone ==
    \E r \in Replied("handleSubmit", "resetPassword") :
        LET error == apiRequest(r.resp).error IN
        /\ Finish(r)
        /\ IF error # Null
           THEN /\ toast' = Toast("destructive", error.message)
                /\ UNCHANGED pageVars
           ELSE /\ toast' = Toast("default", PasswordResetDone)
                /\ Navigate("/auth", Null)
        /\ returned' = Returned(r, resetPassword(apiRequest(r.resp)))
        /\ UNCHANGED <<authVars, loading, serverSession, enrollment>>

\* ------------------------------------------------------ OAuthCallback page
\* A setTimeout(() => navigate(to), ...) that has not fired yet.
Timer(flow, to) ==
    [Request(flow, [to |-> to], "setTimeout", Null) EXCEPT !.stage = "set"]

\* The effect's handleCallback up to `await refreshSession()` (the half second
\* it waits before the call is part of the request's time in flight).
handleCallback ==
    /\ route = CallbackRoute /\ cbEffect /\ Idle("handleCallback")
    /\ cbEffect' = FALSE
    /\ IF search.error # ""
       THEN /\ cbStatus' = "error"
            /\ toast' = Toast("destructive", Or(search.error_description, search.error))
            /\ UNCHANGED <<pc, inflight>>
       ELSE /\ Start("handleCallback", [isLinking |-> search.action = "link"],
                     "getSession", Null)
            /\ toast' = Null
            /\ UNCHANGED cbStatus
    /\ returned' = Null
    /\ UNCHANGED <<authVars, loading, route, locationState, search, tfaVars, settingsVars, posVars, evStatus, evEffect,
                   serverSession, enrollment>>

\* Faulty variant: a callback that sends every visitor to the application home.
handleCallbackRefreshedAlwaysHome ==
    \E r \in Replied("handleCallback", "getSession") :
        /\ RefreshResolves(r)
        /\ cbStatus' = IF route = CallbackRoute THEN "success" ELSE cbStatus
        /\ toast' = Toast("default", "Signed in successfully!")
        /\ inflight' = (inflight \ {r}) \cup {Timer("handleCallback", "/")}
        /\ pc' = [pc EXCEPT !["handleCallback"] = "idle"]
        /\ cbEffect' = \/ cbEffect
                       \/ /\ route = CallbackRoute
                          /\ \/ user' # Null \/ session' # Null
                             \/ user # Null \/ session # Null
        /\ UNCHANGED <<loading, route, locationState, search, tfaVars, settingsVars, posVars, evStatus, evEffect,
                       serverSession, enrollment>>

\* handleCallback from the answer to refreshSession to its end: success is shown
\* and the navigation is left to a timer (the tenth of a second it waits first
\* is part of this step).
handleCallbackRefreshed ==
    \E r \in Replied("handleCallback", "getSession") :
        /\ RefreshResolves(r)
        /\ cbStatus' = IF route = CallbackRoute THEN "success" ELSE cbStatus
        /\ toast' = Toast("default",
                          IF r.scope.isLinking
                          THEN "External account linked successfully!"
                          ELSE "Signed in successfully!")
        /\ inflight' = (inflight \ {r})
                        \cup {Timer("handleCallback",
                                    IF r.scope.isLinking THEN "/settings" ELSE "/")}
        /\ pc' = [pc EXCEPT !["handleCallback"] = "idle"]
        /\ cbEffect' = \/ cbEffect
                       \/ /\ route = CallbackRoute
                          /\ \/ user' # Null \/ session' # Null
                             \/ user # Null \/ session # Null
        /\ UNCHANGED <<loading, route, locationState, search, tfaVars, settingsVars, posVars, evStatus, evEffect,
                       serverSession, enrollment>>

\* A navigation timer of the callback fires (nothing clears it when the page
\* unmounts).
handleCallbackNavigate ==
    \E t \in inflight :
        /\ t.flow = "handleCallback" /\ t.op = "setTimeout"
        /\ inflight' = inflight \ {t}
        /\ Navigate(t.scope.to, Null)
        /\ toast' = Null
        /\ returned' = Null
        /\ UNCHANGED <<authVars, loading, pc, serverSession, enrollment>>

\* The "Back to Login" button of the error state.
CallbackBackToLogin ==
    /\ route = CallbackRoute /\ cbStatus = "error"
    /\ Navigate("/auth", Null)
    /\ toast' = Null
    /\ returned' = Null
    /\ UNCHANGED <<authVars, loading, pc, inflight, serverSession, enrollment>>

\* The app is loaded at the callback URL the provider redirected to.
OAuthInit == InitAt({CallbackRoute}, {Null}, {"Disabled"})

\* The callback page, the provider and the pages it leads to (with Layout's
\* sign-out).
OAuthNext ==
    \/ Backend
    \/ initAuth
    \/ handleCallback \/ handleCallbackRefreshed \/ handleCallbackNavigate
    \/ CallbackBackToLogin
    \/ handleSignOut \/ handleSignOutSignedOut \/ handleSignOutRefreshed

OAuthSpec == OAuthInit /\ [][OAuthNext]_vars

\* ---------------------------------------------------------- Inventory page
\* The `Bearer ${token}` text of an Authorization header (a Null token stands
\* for the text "null" that the template makes of a missing item).
Bearer(token) == [scheme |-> "Bearer", token |-> token]

\* The result of uploadInventoryImage for an outcome of its own fetch: it reads
\* every body with response.json(), whatever the content type.
uploadInventoryImage(resp) ==
    IF resp.thrown # ""
    THEN [data |-> Null, error |-> [message |-> resp.message]]
    ELSE IF resp.ctype # "json" \/ resp.body = [malformed |-> TRUE]
    THEN [data |-> Null, error |-> [message |-> "Unexpected end of JSON input"]]
    ELSE IF ~ResponseOk(resp)
    THEN [data |-> Null,
          error |-> [message |-> Or(Field(resp.body, "message"),
                                    "Failed to upload image")]]
    ELSE [data |-> resp.body, error |-> Null]

\* handleImageUpload with a file chosen, up to the `await fetch(...)` of
\* uploadInventoryImage.
handleImageUpload ==
    /\ route = InventoryRoute /\ ~loading /\ Idle("handleImageUpload")
    /\ Cardinality(inflight) < MaxInflight
    /\ LET token == getItem(localStorage, "auth_token") IN
       inflight' = inflight \cup
           {[Request("handleImageUpload", Null, "uploadInventoryImage",
                     [image |-> "file"])
             EXCEPT !.headers = [Authorization |-> Bearer(token)]]}
    /\ pc' = [pc EXCEPT !["handleImageUpload"] = "uploadInventoryImage"]
    /\ toast' = Null
    /\ returned' = Null
    /\ UNCHANGED <<authVars, loading, pageVars, serverSession, enrollment>>

\* handleImageUpload from the answer to its end.
handleImageUploadDone ==
    \E r \in Replied("handleImageUpload", "uploadInventoryImage") :
        LET res == uploadInventoryImage(r.resp) IN
        /\ Finish(r)
        /\ toast' = IF res.error # Null THEN Toast("destructive", res.error.message)
                    ELSE IF Truthy(res.data)
                    THEN Toast("default", "Image uploaded successfully")
                    ELSE Null
        /\ returned' = Returned(r, res)
        /\ UNCHANGED <<authVars, loading, pageVars, serverSession, enrollment>>

\* The app is loaded at the Inventory page; the storage is as earlier visits
\* left it, possibly with an `auth_token` item from a token-based build.
InventoryInit ==
    InitAt({InventoryRoute}, {Null, [value |-> <<"t">>]}, {"Disabled"})

\* The Inventory page's upload, AuthProvider, Layout's sign-out and the backend.
InventoryNext ==
    \/ Backend
    \/ initAuth
    \/ handleImageUpload \/ handleImageUploadDone
    \/ handleSignOut \/ handleSignOutSignedOut \/ handleSignOutRefreshed

InventorySpec == InventoryInit /\ [][InventoryNext]_vars

\* ------------------------------------------------------------ specification
Next ==
    \/ Backend
    \/ initAuth
    \/ handleSignIn \/ handleSignInSignedIn \/ handleSignInRefreshed \/ handleSignInDone
    \/ handleSignUp \/ handleSignUpSignedUp \/ handleSignUpRefreshed
    \/ TwoFactorAuthRedirect \/ BackToLogin
    \/ setCode \/ setRecoveryCode \/ toggleUseRecoveryCode
    \/ handleVerify \/ handleVerifyVerified \/ handleVerifyRefreshed
    \/ handleSignOut \/ handleSignOutSignedOut \/ handleSignOutRefreshed
    \/ handleUpdateEmail \/ handleUpdateEmailUpdated \/ handleUpdateEmailRefreshed
    \/ handleUpdateEmailDone
    \/ handleChangePassword \/ handleChangePasswordDone
    \/ handleEnable2FA \/ handleEnable2FAEnabled \/ handleEnable2FARefreshed
    \/ handleEnable2FADone
    \/ handleDisable2FA \/ handleDisable2FADisabled \/ handleDisable2FARefreshed
    \/ handleDisable2FADone
    \/ load2FAInfo \/ load2FAInfoDone
    \/ handleResetRecoveryCodes \/ handleResetRecoveryCodesDone
    \/ verifyEmail \/ verifyEmailConfirmed \/ verifyEmailRefreshed
    \/ EmailVerificationLeave
    \/ handleSubmit \/ handleSubmitDone

Spec == Init /\ [][Next]_vars

\* ------------------------------------------- the sign-up form's policy view
\* The Auth page renders with some password typed into the sign-up form and
\* computes the requirement list it shows beside the field.
passwordRequirements ==
    /\ route = "/auth"
    /\ \E password \in TypedPasswords :
        returned' = [flow |-> "Auth", op |-> "getPasswordRequirements",
                     arg |-> password, ret |-> getPasswordRequirements(password)]
    /\ toast' = Null
    /\ UNCHANGED <<authVars, loading, pageVars, pc, inflight, serverSession, enrollment>>

PolicyInit == Init /\ route = "/auth"

PolicySpec == PolicyInit /\ [][passwordRequirements]_vars

\* ------------------------------------------------- the list services
\* An array value, as the record of its items.
Array(elements) == [items |-> elements]

\* `data.body` for the data of an apiRequest result: reading a property of null
\* throws a TypeError, and a value without the property gives undefined (Null).
ReadBody(data) ==
    IF data = Null
    THEN [thrown |-> "TypeError",
          message |-> "Cannot read properties of null (reading 'body')"]
    ELSE [thrown |-> "", value |-> IF "body" \in DOMAIN data THEN data.body ELSE Null]

\* `return { data: data.body, error: error || null }`: the value returned, or
\* the exception that leaves the function.
ReturnDataBody(res) ==
    IF ReadBody(res.data).thrown # ""
    THEN ReadBody(res.data)
    ELSE [data |-> ReadBody(res.data).value, error |-> res.error]

getInventoryItems(res) == ReturnDataBody(res)
getInventoryItemTypes(res) == ReturnDataBody(res)
getRetailStock(res) == ReturnDataBody(res)
getRetailStockByInventoryItemId(res) == ReturnDataBody(res)

\* getLowStockItems from the result of its `await getInventoryItems()`: an
\* exception of that call leaves getLowStockItems too.
getLowStockItems(res) ==
    LET got == getInventoryItems(res) IN
    IF "thrown" \in DOMAIN got THEN got
    ELSE IF got.error # Null \/ got.data = Null THEN [data |-> Null, error |-> got.error]
    ELSE [data |-> Array(SelectSeq(got.data.items,
                                   LAMBDA item : item.totalAmount < item.reOrderLevel)),
          error |-> Null]

ListOps ==
    {"getInventoryItems", "getInventoryItemTypes", "getRetailStock",
     "getRetailStockByInventoryItemId", "getLowStockItems"}

PerformList(op, res) ==
    CASE op = "getInventoryItems" -> getInventoryItems(res)
      [] op = "getInventoryItemTypes" -> getInventoryItemTypes(res)
      [] op = "getRetailStock" -> getRetailStock(res)
      [] op = "getRetailStockByInventoryItemId" -> getRetailStockByInventoryItemId(res)
      [] op = "getLowStockItems" -> getLowStockItems(res)

\* --------------------------------------- the two-factor tab of Settings
\* The app is loaded at /settings by an account with 2FA disabled or enabled.
SettingsInit == InitAt({"/settings"}, {Null}, {"Disabled", "Enabled"})

\* AuthProvider, the tab's mount effect and its three handlers, and the backend.
SettingsNext ==
    \/ Backend
    \/ initAuth
    \/ load2FAInfo \/ load2FAInfoDone
    \/ handleEnable2FA \/ handleEnable2FAEnabled \/ handleEnable2FARefreshed
    \/ handleEnable2FADone
    \/ handleDisable2FA \/ handleDisable2FADisabled \/ handleDisable2FARefreshed
    \/ handleDisable2FADone
    \/ handleResetRecoveryCodes \/ handleResetRecoveryCodesDone

SettingsSpec == SettingsInit /\ [][SettingsNext]_vars

\* ------------------------------------- the auth service over every outcome
\* The operations of the auth service that go through apiRequest.
ServiceOps ==
    {"signUp", "signIn", "verify2FALogin", "verify2FARecoveryCode", "signOut",
     "getSession", "forgotPassword", "resetPassword", "confirmEmail", "updateEmail",
     "changePassword", "getUserInfo", "get2FAInfo", "enable2FA", "disable2FA",
     "reset2FARecoveryCodes", "forget2FAMachine"}

\* What the operation op returns, and the storage it leaves, given the result of
\* its apiRequest.
Perform(op, email, res, ls) ==
    CASE op = "signUp" -> signUp(email, res, ls)
      [] op = "signIn" -> signIn(email, res, ls)
      [] op = "verify2FALogin" -> verify2FALogin(email, res, ls)
      [] op = "verify2FARecoveryCode" -> verify2FARecoveryCode(email, res, ls)
      [] op = "signOut" -> signOut(res, ls)
      [] op = "getSession" -> getSession(res, ls)
      [] op = "forgotPassword" -> [ret |-> forgotPassword(res), ls |-> ls]
      [] op = "resetPassword" -> [ret |-> resetPassword(res), ls |-> ls]
      [] op = "confirmEmail" -> [ret |-> confirmEmail(res), ls |-> ls]
      [] op = "updateEmail" -> [ret |-> updateEmail(res), ls |-> ls]
      [] op = "changePassword" -> [ret |-> changePassword(res), ls |-> ls]
      [] op = "getUserInfo" -> [ret |-> getUserInfo(res), ls |-> ls]
      [] op = "get2FAInfo" -> [ret |-> get2FAInfo(res), ls |-> ls]
      [] op = "enable2FA" -> [ret |-> enable2FA(res), ls |-> ls]
      [] op = "disable2FA" -> [ret |-> disable2FA(res), ls |-> ls]
      [] op = "reset2FARecoveryCodes" -> [ret |-> reset2FARecoveryCodes(res), ls |-> ls]
      [] op = "forget2FAMachine" -> [ret |-> forget2FAMachine(res), ls |-> ls]

FailedToFetch == Thrown("TypeError", "Failed to fetch")

\* The error bodies a backend or a proxy can send: each message field empty, set
\* to a text of its own or set to the second-factor signal, with or without
\* per-field validation errors.
ErrorBodies ==
    {ErrorBody(t, d, m, e, errs) :
        t \in {"", "Unauthorized", RequiresTwoFactor},
        d \in {"", "Failed", RequiresTwoFactor},
        m \in {"", "Wrong password", RequiresTwoFactor},
        e \in {"", "invalid_grant", RequiresTwoFactor},
        errs \in {{}, {"DuplicateUserName"}}}

\* Every way a fetch can end: rejected (timeout, network failure), or answered
\* with a status, a content type and a body that may or may not parse.
FetchOutcomes ==
    {Aborted, FailedToFetch}
    \cup {Http(st, "json", b) : st \in {HttpBadRequest, HttpUnauthorized}, b \in ErrorBodies}
    \cup {Http(st, "json", b) :
            st \in {HttpOk, HttpBadRequest, HttpUnauthorized},
            b \in {Null, [malformed |-> TRUE], [email |-> EmailA]}}
    \cup {Http(st, "text", EmptyText) : st \in {HttpOk, HttpBadRequest, HttpUnauthorized}}
    \cup {Http(st, "text", [text |-> "Bad Gateway"]) :
            st \in {HttpBadRequest, HttpUnauthorized}}

\* Some caller invokes an operation of the service: its request goes out.
callService ==
    /\ inflight = {}
    /\ \E op \in ServiceOps :
        inflight' = {Request("service", [email |-> EmailA], op, Null)}
    /\ toast' = Null
    /\ returned' = Null
    /\ UNCHANGED <<authVars, loading, pageVars, pc, serverSession, enrollment>>

\* The fetch of apiRequest settles, in any way a fetch can.
fetchSettles ==
    /\ \E r \in inflight :
        /\ r.stage = "sent"
        /\ \E o \in FetchOutcomes :
            inflight' = (inflight \ {r}) \cup {[r EXCEPT !.stage = "replied",
                                                          !.resp = o]}
    /\ toast' = Null
    /\ returned' = Null
    /\ UNCHANGED <<authVars, loading, pageVars, pc, serverSession, enrollment>>

\* The operation runs from the result of apiRequest to its return.
serviceReturns ==
    /\ \E r \in inflight :
        /\ r.stage = "replied"
        /\ LET out == Perform(r.op, r.scope.email, apiRequest(r.resp), localStorage)
           IN /\ localStorage' = out.ls
              /\ returned' = Returned(r, out.ret)
        /\ inflight' = inflight \ {r}
    /\ toast' = Null
    /\ UNCHANGED <<user, session, loading, pageVars, pc, serverSession, enrollment>>

TransportInit == Init /\ route = "/auth" /\ serverSession = Null

TransportNext == callService \/ fetchSettles \/ serviceReturns

TransportSpec == TransportInit /\ [][TransportNext]_vars

\* ------------------------------------------- the 2FA operations' requests
\* The 2FA operations of the auth service.
Manage2FAOps ==
    {"get2FAInfo", "enable2FA", "disable2FA", "reset2FARecoveryCodes",
     "forget2FAMachine"}

\* What a caller can pass for enable2FA's arguments: left out, or a value.
CodeArguments == {Null, Given(<< >>), Given(TotpCode)}
FlagArguments == {Null, Given(FALSE), Given(TRUE)}

\* Some caller invokes a 2FA operation: the request the operation builds goes
\* out. The arguments are kept in the request's scope.
callManage2FA ==
    /\ inflight = {}
    /\ \E op \in Manage2FAOps, twoFactorCode \in CodeArguments,
          resetSharedKey \in FlagArguments :
        /\ op # "enable2FA" => twoFactorCode = Null /\ resetSharedKey = Null
        /\ inflight' =
              {Request("service",
                       [email |-> EmailA, twoFactorCode |-> twoFactorCode,
                        resetSharedKey |-> resetSharedKey],
                       op,
                       CASE op = "get2FAInfo" -> get2FAInfoBody
                         [] op = "enable2FA" -> enable2FABody(twoFactorCode, resetSharedKey)
                         [] op = "disable2FA" -> disable2FABody
                         [] op = "reset2FARecoveryCodes" -> reset2FARecoveryCodesBody
                         [] op = "forget2FAMachine" -> forget2FAMachineBody)}
    /\ toast' = Null
    /\ returned' = Null
    /\ UNCHANGED <<authVars, loading, pageVars, pc, serverSession, enrollment>>

ManageNext == callManage2FA \/ fetchSettles \/ serviceReturns

ManageSpec == TransportInit /\ [][ManageNext]_vars

\* The lists a backend sends in the body field of its answer.
ListBodies ==
    {[body |-> Array(<< >>)],
     [body |-> Array(<<[id |-> 1, totalAmount |-> 1, reOrderLevel |-> 2]>>)],
     [body |-> Array(<<[id |-> 1, totalAmount |-> 1, reOrderLevel |-> 2],
                       [id |-> 2, totalAmount |-> 2, reOrderLevel |-> 1]>>)]}

\* Every way the fetch of a list can end.
ListOutcomes ==
    FetchOutcomes \cup {Http(HttpOk, "json", b) : b \in ListBodies}

\* Some page asks for a list.
callListService ==
    /\ inflight = {}
    /\ \E op \in ListOps :
        inflight' = {Request("service", [email |-> EmailA], op, Null)}
    /\ toast' = Null
    /\ returned' = Null
    /\ UNCHANGED <<authVars, loading, pageVars, pc, serverSession, enrollment>>

\* The fetch of apiRequest settles, in any way the fetch of a list can.
listFetchSettles ==
    /\ \E r \in inflight :
        /\ r.stage = "sent"
        /\ \E o \in ListOutcomes :
            inflight' = (inflight \ {r}) \cup {[r EXCEPT !.stage = "replied",
                                                          !.resp = o]}
    /\ toast' = Null
    /\ returned' = Null
    /\ UNCHANGED <<authVars, loading, pageVars, pc, serverSession, enrollment>>

\* The list function runs from the result of apiRequest to its return or to
\* the exception that ends it.
listServiceReturns ==
    /\ \E r \in inflight :
        /\ r.stage = "replied"
        /\ returned' = Returned(r, PerformList(r.op, apiRequest(r.resp)))
        /\ inflight' = inflight \ {r}
    /\ toast' = Null
    /\ UNCHANGED <<authVars, loading, pageVars, pc, serverSession, enrollment>>

ListNext == callListService \/ listFetchSettles \/ listServiceReturns

ListSpec == TransportInit /\ [][ListNext]_vars

\* ------------------------------------------------------------- the POS page
\* Quantities are counted in hundredths, the step of the retail quantity field
\* of the Inventory form; the cart counts in whole units.
Hundredths == 100

\* The largest retail quantity the backend holds for an item in this model.
MaxRetailQuantity == 200

\* The retail quantities of the model: none, half a unit, and so on in half units.
RetailQuantities == {q \in 0..MaxRetailQuantity : q % (Hundredths \div 2) = 0}

\* The inventory of the account as the backend sends it.
StockBodies ==
    {[body |-> Array(<<[id |-> 1, name |-> "item1", price |-> Hundredths,
                        retailQuantity |-> q1],
                       [id |-> 2, name |-> "item2", price |-> Hundredths,
                        retailQuantity |-> q2]>>)] :
        q1 \in RetailQuantities, q2 \in RetailQuantities}

posFrame ==
    <<authVars, loading, route, locationState, search, tfaVars, settingsVars,
      evStatus, evEffect, cbStatus, cbEffect, serverSession, enrollment>>

\* POS' effect on [user]: loadItems up to `await getInventoryItems()`.
loadItems ==
    /\ route = PosRoute /\ posEffect
    /\ posEffect' = FALSE
    /\ IF user # Null
       THEN Start("loadItems", [email |-> user.email], "getInventoryItems", Null)
       ELSE UNCHANGED <<pc, inflight>>
    /\ toast' = Null
    /\ returned' = Null
    /\ UNCHANGED <<posFrame, items, cart>>

\* The backend answers the request for the inventory, or the request times out.
inventoryItemsAnswered ==
    /\ \E r \in inflight :
        /\ r.stage = "sent" /\ r.op = "getInventoryItems"
        /\ \E o \in {Unauthorized, Aborted}
                      \cup {Http(HttpOk, "json", b) : b \in StockBodies} :
            inflight' = (inflight \ {r}) \cup {[r EXCEPT !.stage = "replied",
                                                          !.resp = o]}
    /\ toast' = Null
    /\ returned' = Null
    /\ UNCHANGED <<posFrame, posVars, pc>>

\* `(data || []).filter(item => item.retailQuantity > 0).map(...)`
AvailableItems(data) ==
    LET all == IF data = Null THEN << >> ELSE data.items
        available == SelectSeq(all, LAMBDA item : item.retailQuantity > 0)
    IN [n \in 1..Len(available) |->
            [id |-> available[n].id, name |-> available[n].name,
             price |-> available[n].price, quantity |-> available[n].retailQuantity]]

\* loadItems from the answer to getInventoryItems on; an exception of
\* getInventoryItems ends it without a toast and without new items.
loadItemsDone ==
    \E r \in Replied("loadItems", "getInventoryItems") :
        LET got == getInventoryItems(apiRequest(r.resp)) IN
        /\ Finish(r)
        /\ IF "thrown" \in DOMAIN got
           THEN toast' = Null /\ UNCHANGED items
           ELSE IF got.error # Null
           THEN toast' = Toast("destructive", got.error.message) /\ UNCHANGED items
           ELSE toast' = Null /\ items' = AvailableItems(got.data)
        /\ returned' = Returned(r, got)
        /\ UNCHANGED <<posFrame, cart, posEffect>>

\* `cart.find((i) => i.id === id)`: the position of the first line of the item,
\* 0 for none.
FindLine(id) ==
    IF \E n \in 1..Len(cart) : cart[n].id = id
    THEN CHOOSE n \in 1..Len(cart) :
            /\ cart[n].id = id
            /\ \A m \in 1..(n - 1) : cart[m].id # id
    ELSE 0

NotEnoughStock == Toast("destructive", "Not enough stock")

\* A click on an item of the list: addToCart(item).
addToCart ==
    /\ route = PosRoute
    /\ \E n \in 1..Len(items) :
        LET item == items[n] IN
        IF FindLine(item.id) # 0
        THEN IF cart[FindLine(item.id)].cartQuantity >= item.quantity
             THEN toast' = NotEnoughStock /\ UNCHANGED cart
             ELSE /\ cart' = [i \in 1..Len(cart) |->
                                 IF cart[i].id = item.id
                                 THEN [cart[i] EXCEPT !.cartQuantity = @ + Hundredths]
                                 ELSE cart[i]]
                  /\ toast' = Null
        ELSE /\ cart' = Append(cart, item @@ [cartQuantity |-> Hundredths])
             /\ toast' = Null
    /\ returned' = Null
    /\ UNCHANGED <<posFrame, items, posEffect, pc, inflight>>

\* `cart.filter((i) => i.id !== id)`
WithoutItem(id) == SelectSeq(cart, LAMBDA i : i.id # id)

\* The minus and plus buttons of a cart line: updateCartQuantity(id, quantity)
\* with one unit less or more than the line holds.
updateCartQuantity ==
    /\ route = PosRoute
    /\ \E n \in 1..Len(cart) :
       \E quantity \in {cart[n].cartQuantity - Hundredths,
                        cart[n].cartQuantity + Hundredths} :
        LET id == cart[n].id IN
        IF FindLine(id) = 0
        THEN toast' = Null /\ UNCHANGED cart
        ELSE IF quantity <= 0
        THEN toast' = Null /\ cart' = WithoutItem(id)
        ELSE IF quantity > cart[FindLine(id)].quantity
        THEN toast' = NotEnoughStock /\ UNCHANGED cart
        ELSE /\ cart' = [i \in 1..Len(cart) |->
                            IF cart[i].id = id
                            THEN [cart[i] EXCEPT !.cartQuantity = quantity]
                            ELSE cart[i]]
             /\ toast' = Null
    /\ returned' = Null
    /\ UNCHANGED <<posFrame, items, posEffect, pc, inflight>>

\* The remove button of a cart line: removeFromCart(id).
removeFromCart ==
    /\ route = PosRoute
    /\ \E n \in 1..Len(cart) : cart' = WithoutItem(cart[n].id)
    /\ toast' = Null
    /\ returned' = Null
    /\ UNCHANGED <<posFrame, items, posEffect, pc, inflight>>

\* The POS page opened by a visitor an earlier visit may have left signed in.
PosInit == InitAt({PosRoute}, {Null}, {"Disabled"})

PosNext ==
    \/ initAuth
    \/ loadItems
    \/ inventoryItemsAnswered
    \/ loadItemsDone
    \/ addToCart
    \/ updateCartQuantity
    \/ removeFromCart

PosSpec == PosInit /\ [][PosNext]_vars

\* ------------------------------------------------------------- properties
\* The stored identity marker.
Marker == getItem(localStorage, "email")

\* This step hands the answer r to the handler run that awaits it.
Delivered(r) == r \in inflight /\ r.stage = "replied" /\ r \notin inflight'

\* This step sends a request op on behalf of the handler run flow.
Issued(flow, op) ==
    \E g \in inflight' \ inflight : g.flow = flow /\ g.op = op /\ g.stage = "sent"

\* The call the answer r resolves ended with an error.
Failed(r) == apiRequest(r.resp).error # Null

\* A received 401 that carries the second-factor signal in one of its fields.
CarriesSignal(resp) ==
    /\ resp.thrown = "" /\ resp.status = HttpUnauthorized /\ resp.ctype = "json"
    /\ \E f \in {"title", "detail", "message", "error"} :
            Field(resp.body, f) = RequiresTwoFactor

IsErrorToast(t) == t # Null /\ t.variant = "destructive"

\* C1: when the sign-out request fails, the step that ends the sign-out leaves the
\* client anonymous: the marker is removed and user and session are both null.
C1_FailedSignOutEndsAnonymous ==
    [][\A r \in inflight :
          Delivered(r) /\ r.op = "signOut" /\ Failed(r)
          => Marker' = Null /\ user' = Null /\ session' = Null]_vars

\* C2: the step that receives a 401 signIn answer carrying the second-factor
\* signal leaves the marker, user and session as they were and sends no refresh;
\* the verification run sends its refresh only on receiving a successful answer
\* to verify2FALogin or verify2FARecoveryCode; and the session changes only in a
\* step that receives the answer to a refresh.
C2_SecondFactorSignalNeverAuthenticates ==
    [][/\ \A r \in inflight :
             Delivered(r) /\ r.op = "signIn" /\ CarriesSignal(r.resp)
             => /\ UNCHANGED authVars
                /\ inflight' = inflight \ {r}
       /\ Issued("handleVerify", "getSession")
          => \E r \in inflight :
                /\ Delivered(r) /\ r.flow = "handleVerify"
                /\ r.op \in {"verify2FALogin", "verify2FARecoveryCode"}
                /\ r.resp.thrown = "" /\ ResponseOk(r.resp)
       /\ session' # session
          => \E r \in inflight : Delivered(r) /\ r.op = "getSession"]_vars

\* The second-factor page holds a pending challenge (only a signIn answered with
\* the signal leads there) and the client is still anonymous with no marker.
C2_Witness ==
    /\ route = "/auth/2fa" /\ locationState # Null
    /\ returned # Null /\ returned.op = "signIn"
    /\ returned.ret.error # Null /\ returned.ret.error.message = RequiresTwoFactor
    /\ Marker = Null /\ user = Null /\ session = Null

\* The refresh the answer r resolves returned a session.
GotSession(r) == ~Failed(r) /\ Truthy(apiRequest(r.resp).data)

C4_FailedRefreshClearsSilently ==
    [][\A r \in inflight :
          Delivered(r) /\ r.op = "getSession" /\ Failed(r)
          => /\ user' = Null /\ session' = Null /\ Marker' = Null
             /\ ~IsErrorToast(toast')]_vars

\* A refresh has just failed: the client is anonymous and shows no error.
C4_Witness ==
    /\ returned # Null /\ returned.op = "getSession" /\ returned.ret.error # Null
    /\ user = Null /\ session = Null /\ Marker = Null
    /\ ~IsErrorToast(toast)

\* C5: the step in which the auth provider leaves the loading state with a cached
\* marker enters the optimistic state and sends a session refresh.
C5_StartWithMarkerIssuesRefresh ==
    [][loading /\ ~loading' /\ isAuthenticated(localStorage)
       => /\ user' # Null
          /\ \E g \in inflight' \ inflight : g.op = "getSession"]_vars

\* C6: the step that receives the answer to a refresh, whatever else is or was in
\* flight, sets user and session from that one answer, and leaves the marker in
\* agreement with it: the answer's email when it holds a session, none otherwise.
C6_LastResolvedRefreshWins ==
    [][\A r \in inflight :
          Delivered(r) /\ r.op = "getSession"
          => IF GotSession(r)
             THEN /\ session' = apiRequest(r.resp).data
                  /\ user' = [email |-> apiRequest(r.resp).data.email]
                  /\ Marker' = [value |-> JSONstringify(apiRequest(r.resp).data.email)]
             ELSE /\ session' = Null /\ user' = Null
                  /\ Marker' = Null]_vars

\* The flows that change identity on the server and then refresh, each with the
\* request that makes the change.
MutatingOps ==
    [handleSignIn |-> {"signIn"},
     handleSignUp |-> {"signUp"},
     handleVerify |-> {"verify2FALogin", "verify2FARecoveryCode"},
     handleEnable2FA |-> {"enable2FA"},
     handleDisable2FA |-> {"disable2FA"},
     handleUpdateEmail |-> {"updateEmail"},
     verifyEmail |-> {"confirmEmail"}]

C8_OnlySignOutAndFailedRefreshTouchMarker ==
    [][Marker # Null /\ Marker' # Marker
       => \E r \in inflight :
             /\ Delivered(r)
             /\ r.op = "signOut" \/ (r.op = "getSession" /\ Failed(r))]_vars

\* The operations that write the marker when they succeed.
MarkerWriters ==
    {"signIn", "signUp", "verify2FALogin", "verify2FARecoveryCode", "getSession"}

\* C8 (amended): an existing marker is removed only in a step that receives the
\* answer to signOut or a failed answer to getSession; it is replaced by another
\* value only in a step that receives a successful answer to signIn, signUp, a
\* second-factor verification or getSession; every other step leaves it as it is.
C8_MarkerRemovedOnlyBySignOutAndFailedRefresh ==
    [][/\ Marker # Null /\ Marker' = Null
          => \E r \in inflight :
                /\ Delivered(r)
                /\ r.op = "signOut" \/ (r.op = "getSession" /\ Failed(r))
       /\ Marker' # Null /\ Marker' # Marker
          => \E r \in inflight :
                Delivered(r) /\ r.op \in MarkerWriters /\ ~Failed(r)]_vars

\* A sign-in has just failed and the marker an earlier visit left is still there.
C8_Witness ==
    /\ returned # Null /\ returned.op = "signIn" /\ returned.ret.error # Null
    /\ Marker # Null

\* C9: the step that receives a failed answer to signIn hands the page the
\* generic invalid-credentials text when the error is a 401 whose message is not
\* the second-factor signal, hands it the error unchanged when the message is the
\* signal, and leaves the marker as it was.
C9_FailedSignInMessage ==
    [][\A r \in inflight :
          Delivered(r) /\ r.op = "signIn" /\ Failed(r)
          => LET error == apiRequest(r.resp).error IN
             /\ error.status = HttpUnauthorized /\ error.message # RequiresTwoFactor
                => /\ returned'.ret.error.message = InvalidCredentials
                   /\ toast' = Toast("destructive", InvalidCredentials)
             /\ error.message = RequiresTwoFactor
                => returned'.ret.error = error
             /\ Marker' = Marker]_vars

\* A 401 sign-in failure has just been reported with the generic text.
C9_Witness ==
    /\ returned # Null /\ returned.op = "signIn" /\ returned.ret.error # Null
    /\ returned.ret.error.status = HttpUnauthorized
    /\ returned.ret.error.message = InvalidCredentials
    /\ toast = Toast("destructive", InvalidCredentials)

\* The five checks of the password policy, as the claim lists them.
PassesAllFiveChecks(password) ==
    /\ Len(password) >= 6
    /\ \E i \in 1..Len(password) : password[i] \in LowercaseChars
    /\ \E i \in 1..Len(password) : password[i] \in UppercaseChars
    /\ \E i \in 1..Len(password) : password[i] \in DigitChars
    /\ \E i \in 1..Len(password) :
          password[i] \notin LowercaseChars \cup UppercaseChars \cup DigitChars

\* The new password a sign-up, password-reset or password-change request carries.
NewPasswordOf(g) == IF g.op = "signUp" THEN g.body.password ELSE g.body.newPassword

\* The texts with which the three forms reject a password.
PasswordRejections ==
    {"Password must be at least 6 characters long",
     "Password must have at least one lowercase letter ('a'-'z')",
     "Password must have at least one uppercase letter ('A'-'Z')",
     "Password must have at least one non-alphanumeric character (e.g., !, @, #, $, %, etc.)",
     "Password must have at least one digit ('0'-'9')",
     "Password does not meet all requirements"}

\* C10: every sign-up, password-reset and password-change request that is sent
\* carries a new password passing all five checks, and the step that rejects a
\* password sends nothing and leaves user, session and marker as they were.
C10_PolicyGatesRequests ==
    [][/\ \A g \in inflight' \ inflight :
             g.stage = "sent" /\ g.op \in {"signUp", "resetPassword", "changePassword"}
             => PassesAllFiveChecks(NewPasswordOf(g))
       /\ IsErrorToast(toast') /\ toast'.description \in PasswordRejections
          => UNCHANGED <<authVars, inflight>>]_vars

\* A form has just rejected a password that lacks a digit, with nothing in flight.
C10_Witness ==
    /\ toast = Toast("destructive", "Password must have at least one digit ('0'-'9')")
    /\ inflight = {}

\* The requirement list the sign-up form has just computed for the password p.
RequirementsShownFor(p) ==
    /\ returned # Null /\ returned.op = "getPasswordRequirements"
    /\ returned.arg = p

\* C11 (as stated): the policy checker reports all five checks failed for "abc"
\* and all five checks passed for "Abcdef1!".
C11_AbcFailsAllFiveGoodPassesAllFive ==
    /\ RequirementsShownFor(PwAbc)
       => \A k \in DOMAIN returned.ret : ~returned.ret[k]
    /\ RequirementsShownFor(PwGood)
       => \A k \in DOMAIN returned.ret : returned.ret[k]

\* C11 (amended): the policy checker reports four checks failed for "abc"
\* (length, uppercase, digit, non-alphanumeric) and the lowercase check passed,
\* and reports all five checks passed for "Abcdef1!".
C11_AbcFailsFourGoodPassesAllFive ==
    /\ RequirementsShownFor(PwAbc)
       => returned.ret = [minLength |-> FALSE, hasLowercase |-> TRUE,
                          hasUppercase |-> FALSE, hasNonAlphanumeric |-> FALSE,
                          hasDigit |-> FALSE]
    /\ RequirementsShownFor(PwGood)
       => /\ DOMAIN returned.ret = {"minLength", "hasLowercase", "hasUppercase",
                                    "hasNonAlphanumeric", "hasDigit"}
          /\ \A k \in DOMAIN returned.ret : returned.ret[k]

\* The form has just shown the requirement list for "abc": lowercase is ticked.
C11_Witness ==
    /\ RequirementsShownFor(PwAbc)
    /\ returned.ret.hasLowercase /\ ~returned.ret.minLength

\* The operations whose result carries an error and no data.
ErrorOnlyOps ==
    {"signOut", "forgotPassword", "resetPassword", "confirmEmail", "updateEmail",
     "changePassword", "forget2FAMachine"}

\* The fetch was answered, whatever the status.
Received(resp) == resp.thrown = ""

\* The body of the answer could be read as its content type announces.
Parsed(resp) == ~(resp.ctype = "json" /\ resp.body = [malformed |-> TRUE])

\* C12 (as stated): whatever the outcome of the fetch, the step in which an
\* operation of the auth service returns hands its caller a value with the two
\* fields data and error.
C12_EveryOperationReturnsDataAndError ==
    [][\A r \in inflight :
          Delivered(r) => DOMAIN returned'.ret = {"data", "error"}]_vars

\* C12 (amended): whatever the outcome of the fetch (2xx, non-2xx, network
\* failure, timeout), the step in which an operation of the auth service ends
\* hands its caller a result value and throws nothing: the result has the fields
\* data and error, or the field error alone for the operations that yield no data;
\* its error is null exactly when a 2xx answer was received and read, and is
\* otherwise a {message, status, errors} value beside a null data.
C12_EveryOperationReturnsAResult ==
    [][\A r \in inflight :
          Delivered(r)
          => /\ returned' # Null /\ returned'.op = r.op
             /\ DOMAIN returned'.ret =
                    IF r.op \in ErrorOnlyOps THEN {"error"} ELSE {"data", "error"}
             /\ returned'.ret.error = Null
                <=> Received(r.resp) /\ ResponseOk(r.resp) /\ Parsed(r.resp)
             /\ returned'.ret.error # Null
                => /\ DOMAIN returned'.ret.error = {"message", "status", "errors"}
                   /\ r.op \notin ErrorOnlyOps => returned'.ret.data = Null]_vars

\* signOut has just returned a network failure to its caller as a value.
C12_Witness ==
    /\ returned # Null /\ returned.op = "signOut"
    /\ returned.ret.error # Null
    /\ returned.ret.error.status = TransportStatus
    /\ returned.ret.error.message = "Failed to fetch"

\* C13: the step in which an operation returns reports a timeout as status 0
\* with the timeout message, any other failure to obtain a response as status 0,
\* a received non-2xx response with that response's HTTP status, and never
\* reports status 0 for a request whose HTTP response was received.
C13_TransportFailureToldFromApplicationFailure ==
    [][\A r \in inflight :
          Delivered(r)
          => LET error == returned'.ret.error IN
             /\ r.resp.thrown = "AbortError"
                => /\ error # Null /\ error.status = TransportStatus
                   /\ error.message = TimeoutMessage
             /\ r.resp.thrown \notin {"", "AbortError"}
                => error # Null /\ error.status = TransportStatus
             /\ Received(r.resp) /\ ~ResponseOk(r.resp)
                => error # Null /\ error.status = r.resp.status
             /\ Received(r.resp)
                => error = Null \/ error.status # TransportStatus]_vars

\* The first non-empty of the four message fields of the body b, in the order
\* title, detail, message, error; the default text when none is set.
FirstMessageOf(b) ==
    LET fields == <<"title", "detail", "message", "error">>
        set == {i \in 1..4 : Field(b, fields[i]) # ""}
    IN IF set = {} THEN DefaultErrorMessage
       ELSE Field(b, fields[CHOOSE i \in set : \A j \in set : i <= j])

\* A received non-2xx answer with a structured (JSON object) body.
StructuredError(resp) ==
    /\ Received(resp) /\ ~ResponseOk(resp)
    /\ resp.ctype = "json" /\ Parsed(resp) /\ resp.body # Null

\* C18: for a received non-2xx answer with a structured body, whatever the
\* operation that asked, apiRequest yields an error whose message is the first
\* non-empty of title, detail, message and error (the default text when none is
\* set), whose status is the HTTP status and whose errors are the body's
\* per-field errors, present exactly when the body has some; and every operation
\* but signIn, which rewrites the message of a 401, returns that error as it is.
C18_OneNormalisedErrorShape ==
    [][\A r \in inflight :
          Delivered(r) /\ StructuredError(r.resp)
          => LET error == apiRequest(r.resp).error IN
             /\ apiRequest(r.resp).data = Null
             /\ error.message = FirstMessageOf(r.resp.body)
             /\ error.status = r.resp.status
             /\ error.errors = IF "errors" \in DOMAIN r.resp.body
                                THEN r.resp.body.errors ELSE {}
             /\ r.op # "signIn" => returned'.ret.error = error]_vars

\* updateEmail has just returned a 400 whose text came from the body's message
\* field (title and detail were empty), with the body's per-field errors.
C18_Witness ==
    /\ returned # Null /\ returned.op = "updateEmail"
    /\ returned.ret.error # Null
    /\ returned.ret.error.status = HttpBadRequest
    /\ returned.ret.error.message = "Wrong password"
    /\ returned.ret.error.errors = {"DuplicateUserName"}

\* C17: the step that receives a 401 signIn answer carrying the second-factor
\* signal in one of title, detail, message and error, whatever the other fields
\* hold, hands the page an error whose message is the signal, and the page goes
\* to the second-factor page with the submitted email and password and shows no
\* error.
C17_SignalInAnyFieldLeadsToSecondFactor ==
    [][\A r \in inflight :
          Delivered(r) /\ r.flow = "handleSignIn" /\ r.op = "signIn"
          /\ CarriesSignal(r.resp)
          => /\ returned'.ret.error # Null
             /\ returned'.ret.error.message = RequiresTwoFactor
             /\ route' = "/auth/2fa"
             /\ locationState' = [email |-> r.body.email, password |-> r.body.password]
             /\ ~IsErrorToast(toast')]_vars

\* The callback URL carries an error or an error_description parameter.
HasErrorParams(q) == q.error # "" \/ q.error_description # ""

\* This step is a run of the callback page's effect (the page stays mounted).
CallbackEffectRuns ==
    route = CallbackRoute /\ route' = CallbackRoute /\ cbEffect /\ ~cbEffect'

\* C14: on the callback route with an error or an error_description parameter
\* in the URL, the run of the callback ends in the error state, and no step
\* issues a session refresh for the callback, shows success or navigates to the
\* home or the settings page.
C14_ErrorParamsEndInErrorState ==
    [][route = CallbackRoute /\ HasErrorParams(search)
       => /\ CallbackEffectRuns => cbStatus' = "error"
          /\ ~Issued("handleCallback", "getSession")
          /\ cbStatus' # "success"
          /\ route' \notin {"/", "/settings"}]_vars

\* C15: on the callback route without error parameters, the run of the
\* callback issues a session refresh and reports nothing yet; a navigation timer
\* is set only in the step that receives the answer to that refresh; and the
\* route is left only when such a timer fires, for the settings page exactly
\* when the URL carries action=link and for the application home otherwise.
C15_RefreshThenNavigateByAction ==
    [][/\ CallbackEffectRuns /\ ~HasErrorParams(search)
          => Issued("handleCallback", "getSession") /\ cbStatus' = cbStatus
       /\ \A t \in inflight' \ inflight :
             t.op = "setTimeout"
             => \E r \in inflight :
                   Delivered(r) /\ r.flow = "handleCallback" /\ r.op = "getSession"
       /\ route = CallbackRoute /\ ~HasErrorParams(search) /\ route' # route
          => /\ \E t \in inflight \ inflight' :
                   t.op = "setTimeout" /\ t.scope.to = route'
             /\ route' = IF search.action = "link" THEN "/settings" ELSE "/"]_vars

\* The callback of a linking round trip has refreshed the session and its timer
\* has brought the user to the settings page.
C15_Witness ==
    /\ route = "/settings" /\ session # Null /\ user # Null
    /\ pc["handleCallback"] = "idle"
    /\ ~\E t \in inflight : t.op = "setTimeout"

\* C16: no step sends a request with an Authorization header, none changes a
\* storage item other than the identity marker, and so no bearer token goes
\* from client storage into a request or from an answer into client storage.
C16_NoBearerTokenInStorageOrRequests ==
    [][/\ \A g \in inflight' \ inflight :
             g.stage = "sent" => "Authorization" \notin DOMAIN g.headers
       /\ \A k \in StorageKeys \ {"email"} : localStorage'[k] = localStorage[k]]_vars

VerifyOps == {"verify2FALogin", "verify2FARecoveryCode"}

\* The second factors a verification request carries.
FactorsOf(body) == {"twoFactorCode", "twoFactorRecoveryCode"} \cap DOMAIN body

\* This step ends the handleVerify run that awaited r with a failed verification.
VerifyFails(r) ==
    /\ Delivered(r) /\ r.flow = "handleVerify" /\ r.op \in VerifyOps
    /\ Failed(r)

\* C19: the pending challenge is the email and password of an answered signIn
\* request; a verification request carries the challenge's email and password
\* and exactly one non-empty second factor; a failed verification leaves both
\* code fields empty and the marker, user and session as they were, so the next
\* submit sends nothing until a code is typed again.
C19_VerifySendsCredentialsAndOneFactor ==
    [][/\ (locationState' # Null /\ locationState' # locationState)
           => \E r \in inflight :
                 /\ Delivered(r) /\ r.op = "signIn"
                 /\ locationState' = [email |-> r.body.email,
                                      password |-> r.body.password]
       /\ \A g \in inflight' \ inflight :
             (g.stage = "sent" /\ g.op \in VerifyOps)
             => /\ locationState # Null
                /\ g.body.email = locationState.email
                /\ g.body.password = locationState.password
                /\ Cardinality(FactorsOf(g.body)) = 1
                /\ \A f \in FactorsOf(g.body) : g.body[f] # << >>
                /\ DOMAIN g.body = {"email", "password"} \cup FactorsOf(g.body)
       /\ \A r \in inflight :
             VerifyFails(r)
             => /\ code' = << >> /\ recoveryCode' = << >>
                /\ localStorage' = localStorage
                /\ user' = user /\ session' = session
                /\ ~Issued("handleVerify", "getSession")
                /\ route' = "/auth/2fa" /\ locationState' = locationState]_vars

\* A recovery code was refused on the challenge page: the field is empty again
\* and the marker of an earlier sign-in is still stored.
C19_Witness ==
    /\ returned # Null /\ returned.op = "verify2FARecoveryCode"
    /\ returned.ret.error # Null
    /\ route = "/auth/2fa" /\ locationState # Null
    /\ useRecoveryCode /\ recoveryCode = << >>

\* The values of the pending challenge, as they would sit in a storage item.
StoredSecrets ==
    {p : p \in PasswordInputs \ {<< >>}}
        \cup {JSONstringify(p) : p \in PasswordInputs \ {<< >>}}

\* C20: the pending challenge is created by a signIn answered "second factor
\* required", lives in the location state of the challenge page only, and is
\* gone when the page is left; a verification request is sent only with both
\* values present; the page without a challenge goes to the sign-in page and
\* sends nothing; no storage item ever holds the password, and storage gains an
\* item only as the identity marker of a call that succeeded.
C20_ChallengeOnlyInNavigationState ==
    [][/\ (locationState' # Null /\ locationState' # locationState)
           => \E r \in inflight :
                 /\ Delivered(r) /\ r.op = "signIn"
                 /\ apiRequest(r.resp).error # Null
                 /\ apiRequest(r.resp).error.status = HttpUnauthorized
                 /\ apiRequest(r.resp).error.message = RequiresTwoFactor
                 /\ route' = "/auth/2fa"
       /\ locationState' # Null
           => /\ route' = "/auth/2fa"
              /\ locationState'.email # << >> /\ locationState'.password # << >>
       /\ \A g \in inflight' \ inflight :
             (g.stage = "sent" /\ g.op \in VerifyOps)
             => /\ route = "/auth/2fa" /\ locationState # Null
                /\ g.body.email # << >> /\ g.body.password # << >>
       /\ (route = "/auth/2fa" /\ locationState = Null)
           => /\ \A g \in inflight' \ inflight : g.stage # "sent"
              /\ route' \in {"/auth/2fa", "/auth"}
              /\ locationState' = Null
       /\ \A k \in StorageKeys :
             /\ localStorage'[k] # Null => localStorage'[k].value \notin StoredSecrets
             /\ (localStorage'[k] # localStorage[k] /\ localStorage'[k] # Null)
                 => /\ k = "email"
                    /\ localStorage'[k].value \in {JSONstringify(e) : e \in Emails}
                    /\ \E r \in inflight : Delivered(r) /\ ~Failed(r)]_vars

\* A verification is under way for a pending challenge, and nothing is stored.
C20_Witness ==
    /\ route = "/auth/2fa" /\ locationState # Null
    /\ \E r \in inflight : r.op \in VerifyOps /\ r.body.email = locationState.email
    /\ \A k \in StorageKeys : localStorage[k] = Null

\* The sub-operation a body posted to the manage-2fa endpoint asks for, told by
\* its keys and the value of enable.
Shape(body) ==
    CASE DOMAIN body = {} -> "get-info"
      [] DOMAIN body = {"enable"} /\ body.enable -> "begin-enable"
      [] DOMAIN body = {"enable", "twoFactorCode"} /\ body.enable -> "confirm-enable"
      [] DOMAIN body = {"enable", "resetSharedKey"} /\ body.enable
            /\ body.resetSharedKey -> "reset-shared-key"
      [] DOMAIN body = {"enable"} /\ ~body.enable -> "disable"
      [] DOMAIN body = {"resetRecoveryCodes"} /\ body.resetRecoveryCodes -> "reset-codes"
      [] DOMAIN body = {"forgetMachine"} /\ body.forgetMachine -> "forget-machine"
      [] OTHER -> "other"

\* The shape the operation is to send for its arguments, with codeSent and
\* flagSent telling whether the code and the flag go into the body.
ExpectedShape(op, codeSent, flagSent) ==
    CASE op = "get2FAInfo" -> "get-info"
      [] op = "enable2FA" /\ ~codeSent /\ ~flagSent -> "begin-enable"
      [] op = "enable2FA" /\ codeSent /\ ~flagSent -> "confirm-enable"
      [] op = "enable2FA" /\ ~codeSent /\ flagSent -> "reset-shared-key"
      [] op = "enable2FA" /\ codeSent /\ flagSent -> "other"
      [] op = "disable2FA" -> "disable"
      [] op = "reset2FARecoveryCodes" -> "reset-codes"
      [] op = "forget2FAMachine" -> "forget-machine"

\* The requests of the 2FA operations a caller of the service has under way.
Manage2FARequests ==
    {r \in inflight : r.flow = "service" /\ r.op \in Manage2FAOps}

FlagTrue(a) == a # Null /\ a.value
CodeGiven(a) == a # Null
CodeNotEmpty(a) == a # Null /\ a.value # << >>

ConfirmIssued ==
    \E g \in inflight' \ inflight :
        /\ g.stage = "sent" /\ g.endpoint = "/auth/manage/2fa"
        /\ Shape(g.body) = "confirm-enable"

\* C21: a confirming enable2FA(code) request is sent only to an account in
\* PendingVerification, the state that only a served enable2FA() request
\* without a code leaves: every confirmation is preceded by such a request.
C21_ConfirmOnlyAfterBeginEnable ==
    [][ConfirmIssued => enrollment = "PendingVerification"]_vars

\* The single-shot 2FA operations.
SingleShotOps == {"disable2FA", "reset2FARecoveryCodes", "forget2FAMachine"}

\* C22: the step that hands a flow the success of disable2FA,
\* reset2FARecoveryCodes or forget2FAMachine sends the flow's session refresh,
\* and the step that hands it a failure ends the flow with no refresh.
C22_SingleShotSuccessRefreshes ==
    [][\A r \in inflight :
          (Delivered(r) /\ r.op \in SingleShotOps)
          => IF Failed(r)
             THEN ~Issued(r.flow, "getSession") /\ pc'[r.flow] = "idle"
             ELSE Issued(r.flow, "getSession")]_vars

\* C24: when a get2FAInfo probe fails, the page is left without a two-factor
\* status: no enabled/disabled flag and no shared key loaded before the failure
\* is shown any longer.
C24_FailedProbeLeavesStatusUnknown ==
    [][\A r \in inflight :
          (Delivered(r) /\ r.op = "get2FAInfo" /\ Failed(r) /\ route = "/settings")
          => twoFactorInfo' = Null]_vars

\* The client is anonymous: no marker, no user, no session.
Anonymous == Marker = Null /\ user = Null /\ session = Null

\* The sign-out has just completed: its request resolved without error and the
\* refresh that follows it has resolved in the latest step.
SignOutCompleted ==
    /\ returned # Null
    /\ returned.flow = "handleSignOut" /\ returned.op = "getSession"

\* The flows that establish an identity.
SignInFlows == {"handleSignIn", "handleSignUp", "handleVerify", "handleCallback"}

\* C25: from the state a completed sign-out leaves anonymous, a step that is
\* not the answer to a sign-in, sign-up, second-factor verification or OAuth
\* callback leaves the client anonymous; so the answer to a refresh that was
\* sent before the sign-out does not bring the marker or the user back.
C25_SignedOutStaysAnonymous ==
    [][(SignOutCompleted /\ Anonymous)
       => \/ Anonymous'
          \/ \E r \in inflight : Delivered(r) /\ r.flow \in SignInFlows]_vars

\* C26: in the state the answer to a refresh leaves, whatever the answer was,
\* the marker is stored exactly when the context holds a user.
C26_MarkerPresentIffUserAfterRefresh ==
    [][\A r \in inflight :
          (Delivered(r) /\ r.op = "getSession")
          => (Marker' # Null <=> user' # Null)]_vars

\* C27: the step in which the callback receives the answer to its refresh shows
\* success and sets the navigation timer only when the answer established a
\* session (a user is set); after a failed refresh it shows the error state and
\* sets no timer.
C27_CallbackSucceedsOnlyWithSession ==
    [][\A r \in inflight :
          (Delivered(r) /\ r.flow = "handleCallback" /\ r.op = "getSession"
              /\ route = CallbackRoute)
          => IF GotSession(r)
             THEN user' # Null /\ cbStatus' = "success"
             ELSE /\ cbStatus' = "error"
                  /\ \A t \in inflight' \ inflight : t.op # "setTimeout"]_vars

\* C28: the step in which a list function ends after a failed request hands
\* its caller the value {data: null, error} with the error set; no exception
\* leaves the function.
C28_ListFunctionsReturnErrorValue ==
    [][\A r \in inflight :
          (Delivered(r) /\ r.op \in ListOps /\ Failed(r))
          => /\ returned' # Null
             /\ DOMAIN returned'.ret = {"data", "error"}
             /\ returned'.ret.data = Null
             /\ returned'.ret.error = apiRequest(r.resp).error]_vars

\* C29: every line of the POS cart holds at least one unit and no more than the
\* stock of its item, and no two lines hold the same item.
C29_CartLinesWithinStock ==
    \A n \in 1..Len(cart) :
        /\ cart[n].cartQuantity >= Hundredths
        /\ cart[n].cartQuantity <= cart[n].quantity
        /\ \A m \in 1..Len(cart) : cart[m].id = cart[n].id => m = n

\* The operations that write the identity marker for the email they were called
\* with.
CallerEmailWriters == MarkerWriters \ {"getSession"}

\* C30: after the step in which a successful signIn, signUp, second-factor
\* verification or getSession wrote the marker for an email, getStoredUserEmail
\* returns exactly that email, and the user initAuth restores from the marker
\* carries the email that was stored.
C30_MarkerRoundTrips ==
    [][/\ \A r \in inflight :
            /\ (Delivered(r) /\ r.op \in CallerEmailWriters /\ ~Failed(r))
               => getStoredUserEmail(localStorage') = [value |-> r.scope.email]
            /\ (Delivered(r) /\ r.op = "getSession" /\ ~Failed(r)
                    /\ Truthy(apiRequest(r.resp).data))
               => getStoredUserEmail(localStorage')
                      = [value |-> apiRequest(r.resp).data.email]
       /\ (loading /\ ~loading' /\ user' # Null)
          => \E e \in Emails :
                Marker = [value |-> JSONstringify(e)] /\ user'.email = e]_vars
====
